---- MODULE Spec2Model ----
(***************************************************************************)
(* Verification model of XenianChannelBot (xenian_channel.bot).            *)
(*                                                                         *)
(* The module holds several specifications, one per area of the program:   *)
(*   SpecState    UserState documents and their write-through `state`      *)
(*   SpecReact    reaction voting on a published message                   *)
(*                                                                         *)
(* Every specification drives its own group of variables and leaves the    *)
(* other groups at their idle values.                                      *)
(***************************************************************************)
EXTENDS Integers, Sequences, FiniteSets, TLC

(***************************************************************************)
(* Bounds of the model.                                                    *)
(***************************************************************************)
MaxUsers == 2

Users == 1..MaxUsers

(***************************************************************************)
(* UserState.  models/user_state.py                                        *)
(***************************************************************************)
IDLE == "idle"
ADDING_CHANNEL == "adding channel"
CHANNEL_ACTIONS == "channel actions"
CREATE_SINGLE_POST == "create single post"
SCHEDULE_ADDED_MESSAGES_WHEN == "schedule added messages when"
SCHEDULE_ADDED_MESSAGES_DELAY == "schedule added messages delay"
SCHEDULE_ADDED_MESSAGES_BATCH == "schedule added messages batch"
SCHEDULE_ADDED_MESSAGES_CONFIRMATION == "schedule added messages confirmation"
SEND_LOCKED == "send_locked"

\* The workflow states the UserState group ranges over.
StateVals == {IDLE, ADDING_CHANNEL, CREATE_SINGLE_POST, SEND_LOCKED}

\* Values of the state_data scratch map (abstracted to a token).
DataVals == {"d0", "d1"}

NoDoc == [absent |-> TRUE]
NoObj == [none |-> TRUE]

VARIABLES
    us_db,      \* storage: user -> stored UserState document or NoDoc
    tg_state,   \* ChannelManager.tg_state: the in-memory UserState object
    us_last     \* history: the last operation on the UserState group

varsState == <<us_db, tg_state, us_last>>

VARIABLES
    rx_db,      \* TgMessage.reactions of the published message, or NoDoc
    rx_queue,   \* 'reactions' of the message's entry in the legacy queue collection
    rx_last     \* history: the last reaction tap

varsReact == <<rx_db, rx_queue, rx_last>>

VARIABLES sc_added, sc_scheduled, sc_jobs, sc_state, sc_data, sc_change, sc_shown,
          sc_last
varsSchedule ==
    <<sc_added, sc_scheduled, sc_jobs, sc_state, sc_data, sc_change, sc_shown, sc_last>>

VARIABLES p_db, p_cur, p_cache, p_state, p_w, p_job, p_uuid, p_chat, p_last
varsPost == <<p_db, p_cur, p_cache, p_state, p_w, p_job, p_uuid, p_chat, p_last>>

VARIABLES r_docs, r_state, r_current, r_ctx, r_w, r_admin, l_admin, l_state, r_n, r_last
varsRegister ==
    <<r_docs, r_state, r_current, r_ctx, r_w, r_admin, l_admin, l_state, r_n, r_last>>

VARIABLES b_btn, b_all, b_ttl, b_last
varsButton == <<b_btn, b_all, b_ttl, b_last>>

VARIABLES k_state, k_added, k_queued, k_w, lk_state, lk_queue, lk_run, lk_send, k_last
varsLock == <<k_state, k_added, k_queued, k_w, lk_state, lk_queue, lk_run, lk_send, k_last>>

VARIABLES m_cur, m_next, m_w
varsMenu == <<m_cur, m_next, m_w>>

VARIABLES jq_plain, jq_other
varsQueue == <<jq_plain, jq_other>>

VARIABLES bt_init, bt_db, bt_mem, bt_due, bt_load, bt_jobs, bt_out
varsBoot == <<bt_init, bt_db, bt_mem, bt_due, bt_load, bt_jobs, bt_out>>

VARIABLES d_w, d_all, d_jobs, d_n, d_since
varsDebounce == <<d_w, d_all, d_jobs, d_n, d_since>>

VARIABLES sv_db, sv_obj, sv_caption, sv_retry, sv_last
varsSave == <<sv_db, sv_obj, sv_caption, sv_retry, sv_last>>

VARIABLES cc_chan, cc_db, cc_self, cc_w, cc_job, cc_last
varsCurrent == <<cc_chan, cc_db, cc_self, cc_w, cc_job, cc_last>>

VARIABLES rs_state, rs_legacy, rs_cur, rs_last
varsReset == <<rs_state, rs_legacy, rs_cur, rs_last>>

VARIABLES st_state, st_caption, st_reactions, st_last
varsSettings == <<st_state, st_caption, st_reactions, st_last>>

VARIABLES im_import, im_queue, im_index, im_uuid, im_last
varsImport == <<im_import, im_queue, im_index, im_uuid, im_last>>

VARIABLES mg_msgs, mg_chan, mg_oid, mg_runs, mg_before
varsMigration == <<mg_msgs, mg_chan, mg_oid, mg_runs, mg_before>>

VARIABLES rt_pc, rt_args, rt_hist, rt_error, rt_notified, rt_out
varsRetry == <<rt_pc, rt_args, rt_hist, rt_error, rt_notified, rt_out>>

VARIABLES da_last, da_n
varsSearch == <<da_last, da_n>>

VARIABLES wz_in
varsWizard == <<wz_in>>

VARIABLES dl_db, dl_obj, dl_self, dl_w, dl_when, dl_jobs, dl_posts, dl_removed, dl_next, dl_last
varsDelivery == <<dl_db, dl_obj, dl_self, dl_w, dl_when, dl_jobs, dl_posts, dl_removed, dl_next, dl_last>>

VARIABLES mx_db, mx_w, mx_lock, mx_n, mx_done
varsMutex == <<mx_db, mx_w, mx_lock, mx_n, mx_done>>

vars == <<varsState, varsReact, varsSchedule, varsPost, varsRegister, varsButton, varsLock, varsMenu, varsQueue, varsBoot, varsDebounce, varsSave, varsCurrent, varsReset, varsSettings, varsImport, varsMigration, varsRetry, varsSearch, varsWizard, varsDelivery, varsMutex>>

\* The groups a specification leaves alone.
IdleState ==
    /\ us_db = <<>>
    /\ tg_state = NoObj
    /\ us_last = [op |-> "init", user |-> 0, value |-> "-"]
IdleReact ==
    /\ rx_db = NoDoc
    /\ rx_queue = NoDoc
    /\ rx_last = [handler |-> "-", user |-> 0, emoji |-> "-", from |-> "-"]

NoConfirm ==
    [op |-> "-", t0 |-> 0, d |-> 0, n |-> 0, msgs |-> <<>>, mode |-> "-",
     randomize |-> FALSE, failed |-> FALSE]
IdleSchedule ==
    /\ sc_added = <<>>
    /\ sc_scheduled = <<>>
    /\ sc_jobs = <<>>
    /\ sc_state = IDLE
    /\ sc_data = <<>>
    /\ sc_change = FALSE
    /\ sc_shown = {}
    /\ sc_last = NoConfirm

NoQueueing ==
    [op |-> "-", file |-> 0, dists |-> <<>>, exact |-> FALSE, result |-> "-",
     marker |-> "-"]
\* self.chat before the first update is handled.
NoChatYet == "-"
NoWorker ==
    [pc |-> "idle", uuid |-> 0, messages |-> <<>>, rest |-> <<>>, preview |-> FALSE,
     delivered |-> <<>>, send_to |-> "-"]
IdlePost ==
    /\ p_db = <<>>
    /\ p_cur = NoObj
    /\ p_cache = NoDoc
    /\ p_state = IDLE
    /\ p_w = NoWorker
    /\ p_job = FALSE
    /\ p_uuid = 0
    /\ p_chat = NoChatYet
    /\ p_last = NoQueueing

NoForward == [handler |-> "-", user |-> 0, chat |-> 0, result |-> "-"]
IdleRegister ==
    /\ r_docs = <<>>
    /\ r_state = <<>>
    /\ r_current = <<>>
    /\ r_ctx = NoObj
    /\ r_w = <<>>
    /\ r_admin = <<>>
    /\ l_admin = {}
    /\ l_state = <<>>
    /\ r_n = 0
    /\ r_last = NoForward

NoTap == [id |-> 0, known |-> FALSE, outcome |-> "-", made |-> <<>>]
IdleButton ==
    /\ b_btn = <<>>
    /\ b_all = {}
    /\ b_ttl = 0
    /\ b_last = NoTap

NoCall == [tick |-> FALSE, side |-> "-", handler |-> "-", locked |-> FALSE, reply |-> "-"]
IdleLock ==
    /\ k_state = IDLE
    /\ k_added = 0
    /\ k_queued = 0
    /\ k_w = "idle"
    /\ lk_state = IDLE
    /\ lk_queue = 0
    /\ lk_run = {}
    /\ lk_send = "idle"
    /\ k_last = NoCall

NoRender == [pc |-> "idle", create |-> FALSE, current |-> 0, new |-> 0]
IdleMenu ==
    /\ m_cur = {}
    /\ m_next = 0
    /\ m_w = <<>>

IdleQueue ==
    /\ jq_plain = {}
    /\ jq_other = 0

NoLoad == [pc |-> "off", ch |-> 0, todo |-> <<>>, used |-> 0]
IdleBoot ==
    /\ bt_init = <<>>
    /\ bt_db = <<>>
    /\ bt_mem = <<>>
    /\ bt_due = {}
    /\ bt_load = NoLoad
    /\ bt_jobs = {}
    /\ bt_out = {}

NoAdder == [pc |-> "idle", job |-> 0, todo |-> <<>>]
IdleDebounce ==
    /\ d_w = <<>>
    /\ d_all = <<>>
    /\ d_jobs = <<>>
    /\ d_n = 0
    /\ d_since = 0

NoSave ==
    [op |-> "-", grew |-> FALSE, find |-> "-", service |-> "-", result |-> "-",
     persisted |-> FALSE, raised |-> FALSE, retry |-> FALSE]
IdleSave ==
    /\ sv_db = <<>>
    /\ sv_obj = <<>>
    /\ sv_caption = 0
    /\ sv_retry = {}
    /\ sv_last = NoSave

NoSelf == [user |-> 0, cur |-> 0]
NoHandler == [pc |-> "idle", user |-> 0, arg |-> 0, got |-> 0]
NoWrite == [op |-> "-", by |-> 0, wrote |-> 0, chan |-> 0]
IdleCurrent ==
    /\ cc_chan = {}
    /\ cc_db = <<>>
    /\ cc_self = NoSelf
    /\ cc_w = <<>>
    /\ cc_job = 0
    /\ cc_last = NoWrite

NoReset == [impl |-> "-", by |-> 0, target |-> 0, before |-> "-", result |-> "-"]
IdleReset ==
    /\ rs_state = <<>>
    /\ rs_legacy = <<>>
    /\ rs_cur = {}
    /\ rs_last = NoReset

NoSetting == [op |-> "-", text |-> <<>>, caption |-> <<>>, state |-> "-", result |-> "-"]
IdleSettings ==
    /\ st_state = "-"
    /\ st_caption = <<>>
    /\ st_reactions = <<>>
    /\ st_last = NoSetting

NoImport == [op |-> "-", batch |-> <<>>, uuid |-> 0, done |-> 0, failed |-> FALSE]
IdleImport ==
    /\ im_import = <<>>
    /\ im_queue = <<>>
    /\ im_index = {}
    /\ im_uuid = 0
    /\ im_last = NoImport

NoDatabase == [msgs |-> {}, chan |-> <<>>]
IdleMigration ==
    /\ mg_msgs = {}
    /\ mg_chan = <<>>
    /\ mg_oid = 0
    /\ mg_runs = 0
    /\ mg_before = NoDatabase

NoError == "None"
IdleRetry ==
    /\ rt_pc = "idle"
    /\ rt_args = "-"
    /\ rt_hist = <<>>
    /\ rt_error = NoError
    /\ rt_notified = FALSE
    /\ rt_out = "-"

NoSearch == [args |-> <<>>, group |-> 0, level |-> 0, terms |-> <<>>, out |-> "-"]
IdleSearch ==
    /\ da_last = NoSearch
    /\ da_n = 0

NoWizardText == [pending |-> FALSE, text |-> 0, state |-> "-", data |-> <<>>]
IdleWizard ==
    /\ wz_in = NoWizardText

NoChannelDoc == [scheduled |-> <<>>, added |-> <<>>, sent |-> <<>>]
NoDelivery == [op |-> "-", obj |-> 0, key |-> 0, batch |-> <<>>, done |-> <<>>, stopped |-> FALSE, notice |-> "-", before |-> NoChannelDoc, removed |-> FALSE]
IdleDelivery ==
    /\ dl_db = NoChannelDoc
    /\ dl_obj = <<>>
    /\ dl_self = 0
    /\ dl_w = <<>>
    /\ dl_when = 0
    /\ dl_jobs = <<>>
    /\ dl_posts = <<>>
    /\ dl_removed = FALSE
    /\ dl_next = 1
    /\ dl_last = NoDelivery

NoSaver == [pc |-> "idle", kind |-> "-", field |-> "-", msg |-> 0, obj |-> <<>>, changed |-> FALSE, raised |-> FALSE]
IdleMutex ==
    /\ mx_db = <<>>
    /\ mx_w = <<>>
    /\ mx_lock = 0
    /\ mx_n = 0
    /\ mx_done = {}

FrameState == UNCHANGED <<varsReact, varsSchedule, varsPost, varsRegister, varsButton, varsLock, varsMenu, varsQueue, varsBoot, varsDebounce, varsSave, varsCurrent, varsReset, varsSettings, varsImport, varsMigration, varsRetry, varsSearch, varsWizard, varsDelivery, varsMutex>>
FrameReact == UNCHANGED <<varsState, varsSchedule, varsPost, varsRegister, varsButton, varsLock, varsMenu, varsQueue, varsBoot, varsDebounce, varsSave, varsCurrent, varsReset, varsSettings, varsImport, varsMigration, varsRetry, varsSearch, varsWizard, varsDelivery, varsMutex>>
FrameSchedule == UNCHANGED <<varsState, varsReact, varsPost, varsRegister, varsButton, varsLock, varsMenu, varsQueue, varsBoot, varsDebounce, varsSave, varsCurrent, varsReset, varsSettings, varsImport, varsMigration, varsRetry, varsSearch, varsWizard, varsDelivery, varsMutex>>
FramePost == UNCHANGED <<varsState, varsReact, varsSchedule, varsRegister, varsButton, varsLock, varsMenu, varsQueue, varsBoot, varsDebounce, varsSave, varsCurrent, varsReset, varsSettings, varsImport, varsMigration, varsRetry, varsSearch, varsWizard, varsDelivery, varsMutex>>
FrameRegister == UNCHANGED <<varsState, varsReact, varsSchedule, varsPost, varsButton, varsLock, varsMenu, varsQueue, varsBoot, varsDebounce, varsSave, varsCurrent, varsReset, varsSettings, varsImport, varsMigration, varsRetry, varsSearch, varsWizard, varsDelivery, varsMutex>>
FrameButton == UNCHANGED <<varsState, varsReact, varsSchedule, varsPost, varsRegister, varsLock, varsMenu, varsQueue, varsBoot, varsDebounce, varsSave, varsCurrent, varsReset, varsSettings, varsImport, varsMigration, varsRetry, varsSearch, varsWizard, varsDelivery, varsMutex>>
FrameLock == UNCHANGED <<varsState, varsReact, varsSchedule, varsPost, varsRegister, varsButton, varsMenu, varsQueue, varsBoot, varsDebounce, varsSave, varsCurrent, varsReset, varsSettings, varsImport, varsMigration, varsRetry, varsSearch, varsWizard, varsDelivery, varsMutex>>

\* A freshly constructed UserState(user=u): field defaults, not yet stored.
NewUserState(u) ==
    [user |-> u, state |-> IDLE, state_data |-> "d0", dirty |-> {}, stored |-> FALSE]

\* Document.save() as UserState.save calls it under save_lock: a document that
\* was never stored is inserted whole, a stored one has its changed fields written.
DocSave(db, obj) ==
    IF ~obj.stored \/ db[obj.user] = NoDoc
    THEN [db EXCEPT ![obj.user] = [state |-> obj.state, state_data |-> obj.state_data]]
    ELSE [db EXCEPT ![obj.user] =
             [state |-> IF "state" \in obj.dirty THEN obj.state ELSE @.state,
              state_data |-> IF "state_data" \in obj.dirty
                             THEN obj.state_data ELSE @.state_data]]

Saved(obj) == [obj EXCEPT !.dirty = {}, !.stored = TRUE]

\* UserState.__setattr__: the attribute is set, and an initialised document whose
\* `state` was assigned saves itself.
SetAttrNoSave(db, obj, key, value, initialised) ==
    LET set == [obj EXCEPT ![key] = value, !.dirty = @ \cup {key}]
    IN  [db |-> db, obj |-> set]
SetAttr(db, obj, key, value, initialised) ==
    LET set == [obj EXCEPT ![key] = value, !.dirty = @ \cup {key}]
    IN  IF initialised /\ key = "state"
        THEN [db |-> DocSave(db, set), obj |-> Saved(set)]
        ELSE [db |-> db, obj |-> set]

\* ChannelManager.on_call: the user's stored UserState, or a new one.
USOnCall(u) ==
    /\ tg_state' = IF us_db[u] = NoDoc
                   THEN NewUserState(u)
                   ELSE [user |-> u, state |-> us_db[u].state,
                         state_data |-> us_db[u].state_data,
                         dirty |-> {}, stored |-> TRUE]
    /\ us_last' = [op |-> "on_call", user |-> u,
                   value |-> IF us_last.op \in {"restart"} /\ us_last.user = u
                             THEN us_last.value ELSE "-"]
    /\ UNCHANGED us_db
    /\ FrameState

\* self.tg_state.state = v
USAssignState(v) ==
    /\ tg_state # NoObj
    /\ LET r == SetAttr(us_db, tg_state, "state", v, TRUE)
       IN  /\ us_db' = r.db
           /\ tg_state' = r.obj
    /\ us_last' = [op |-> "assign_state", user |-> tg_state.user, value |-> v]
    /\ FrameState

\* self.tg_state.state_data[...] = d  (no save by itself)
USAssignData(d) ==
    /\ tg_state # NoObj
    /\ LET r == SetAttr(us_db, tg_state, "state_data", d, TRUE)
       IN  /\ us_db' = r.db
           /\ tg_state' = r.obj
    /\ us_last' = [op |-> "assign_data", user |-> tg_state.user, value |-> "-"]
    /\ FrameState

\* self.tg_state.save()
USSave ==
    /\ tg_state # NoObj
    /\ us_db' = DocSave(us_db, tg_state)
    /\ tg_state' = Saved(tg_state)
    /\ us_last' = [op |-> "save", user |-> tg_state.user, value |-> "-"]
    /\ FrameState

\* The process stops and starts again: memory is lost, storage is kept.
USRestart ==
    /\ tg_state' = NoObj
    /\ us_last' = [op |-> "restart",
                   user |-> IF us_last.op = "assign_state" THEN us_last.user ELSE 0,
                   value |-> IF us_last.op = "assign_state" THEN us_last.value ELSE "-"]
    /\ UNCHANGED us_db
    /\ FrameState

InitState ==
    /\ us_db = [u \in Users |-> NoDoc]
    /\ tg_state = NoObj
    /\ us_last = [op |-> "init", user |-> 0, value |-> "-"]
    /\ IdleReact
    /\ IdleSchedule
    /\ IdlePost
    /\ IdleRegister
    /\ IdleButton
    /\ IdleLock
    /\ IdleMenu
    /\ IdleQueue
    /\ IdleBoot
    /\ IdleDebounce
    /\ IdleSave
    /\ IdleCurrent
    /\ IdleReset
    /\ IdleSettings
    /\ IdleImport
    /\ IdleMigration
    /\ IdleRetry
    /\ IdleSearch
    /\ IdleWizard
    /\ IdleDelivery
    /\ IdleMutex

NextState ==
    \/ \E u \in Users : USOnCall(u)
    \/ \E v \in StateVals : USAssignState(v)
    \/ \E d \in DataVals : USAssignData(d)
    \/ USSave
    \/ USRestart

SpecState == InitState /\ [][NextState]_vars

\* The state value held by the stored document of the user, "-" without one.
StoredState(u) == IF us_db[u] = NoDoc THEN "-" ELSE us_db[u].state

\* C1: directly after the assignment state = v, with no explicit save, the stored
\* document of that user holds state v; a restart directly after the assignment
\* and the reload by on_call that follows it resume the user in v.
C1_StateWriteThrough ==
    /\ us_last.op = "assign_state" => StoredState(us_last.user) = us_last.value
    /\ (us_last.op = "restart" /\ us_last.user # 0)
          => StoredState(us_last.user) = us_last.value
    /\ (us_last.op = "on_call" /\ us_last.value # "-")
          => tg_state.state = us_last.value

\* A restart happened directly after an assignment of a non-default state and the
\* user was reloaded.
C1_Witness ==
    /\ us_last.op = "on_call"
    /\ us_last.value = SEND_LOCKED
    /\ tg_state.stored

(***************************************************************************)
(* Reaction voting.  commands/channelmanager.py, commands/channel.py       *)
(***************************************************************************)
MaxVoters == 2
Voters == 1..MaxVoters
Emojis == {"a", "b", "c"}

RECURSIVE RemoveFirst(_, _)
\* list.remove(x): the list without the first occurrence of x.
RemoveFirst(list, x) ==
    IF list = <<>> THEN <<>>
    ELSE IF Head(list) = x THEN Tail(list)
    ELSE <<Head(list)>> \o RemoveFirst(Tail(list), x)

InList(list, x) == \E i \in 1..Len(list) : list[i] = x

\* How often x occurs in the list.
Occurrences(list, x) == Cardinality({i \in 1..Len(list) : list[i] = x})

\* prepare_send_message: a published message starts with one empty bucket per
\* reaction of the channel.
ReactionDict(reactions) == [e \in reactions |-> <<>>]

\* ChannelManager.reaction_button_callback_query on the stored ledger: an unknown
\* reaction or a repeated vote changes nothing; otherwise the voter leaves every
\* bucket that holds them and joins the tapped one.
ReactionTapKeepOld(ledger, u, e) ==
    IF ledger = NoDoc \/ e \notin DOMAIN ledger THEN ledger
    ELSE IF InList(ledger[e], u) THEN ledger
    ELSE [ledger EXCEPT ![e] = Append(@, u)]
ReactionTap(ledger, u, e) ==
    IF ledger = NoDoc \/ e \notin DOMAIN ledger THEN ledger
    ELSE IF InList(ledger[e], u) THEN ledger
    ELSE LET removed == [r \in DOMAIN ledger |->
                            IF InList(ledger[r], u) THEN RemoveFirst(ledger[r], u)
                            ELSE ledger[r]]
         IN  [removed EXCEPT ![e] = Append(@, u)]

\* Channel.reaction_button_handler on the queue entry of the message: the same
\* steps over user ids; a missing entry raises before anything is written.
ReactionTapQueue(ledger, u, e) ==
    IF ledger = NoDoc THEN ledger
    ELSE IF e \notin DOMAIN ledger \/ InList(ledger[e], u) THEN ledger
    ELSE LET removed == [r \in DOMAIN ledger |->
                            IF InList(ledger[r], u) THEN RemoveFirst(ledger[r], u)
                            ELSE ledger[r]]
         IN  [removed EXCEPT ![e] = Append(@, u)]

\* The bucket that holds the voter before a tap, "-" when there is none.
BucketOf(ledger, u) ==
    IF \E e \in DOMAIN ledger : InList(ledger[e], u)
    THEN CHOOSE e \in DOMAIN ledger : InList(ledger[e], u)
    ELSE "-"

\* A post is published to the channel with the channel's reactions.
RxPublish(reactions) ==
    /\ rx_db = NoDoc
    /\ rx_db' = ReactionDict(reactions)
    /\ rx_queue' = ReactionDict(reactions)
    /\ UNCHANGED rx_last
    /\ FrameReact

\* A voter taps the button of emoji e under the published message.
RxTap(u, e) ==
    /\ rx_db # NoDoc
    /\ rx_db' = ReactionTap(rx_db, u, e)
    /\ rx_last' = [handler |-> "manager", user |-> u, emoji |-> e,
                   from |-> BucketOf(rx_db, u)]
    /\ UNCHANGED rx_queue
    /\ FrameReact

\* The same tap handled by the legacy Channel command set.
RxTapQueue(u, e) ==
    /\ rx_queue # NoDoc
    /\ rx_queue' = ReactionTapQueue(rx_queue, u, e)
    /\ rx_last' = [handler |-> "channel", user |-> u, emoji |-> e,
                   from |-> BucketOf(rx_queue, u)]
    /\ UNCHANGED rx_db
    /\ FrameReact

InitReact ==
    /\ IdleReact
    /\ IdleState
    /\ IdleSchedule
    /\ IdlePost
    /\ IdleRegister
    /\ IdleButton
    /\ IdleLock
    /\ IdleMenu
    /\ IdleQueue
    /\ IdleBoot
    /\ IdleDebounce
    /\ IdleSave
    /\ IdleCurrent
    /\ IdleReset
    /\ IdleSettings
    /\ IdleImport
    /\ IdleMigration
    /\ IdleRetry
    /\ IdleSearch
    /\ IdleWizard
    /\ IdleDelivery
    /\ IdleMutex

NextReact ==
    \/ \E rs \in SUBSET Emojis : RxPublish(rs)
    \/ \E u \in Voters, e \in Emojis : RxTap(u, e)
    \/ \E u \in Voters, e \in Emojis : RxTapQueue(u, e)

SpecReact == InitReact /\ [][NextReact]_vars

\* The voter occurs at most once in the whole ledger.
AtMostOnce(ledger, u) ==
    \A e1, e2 \in DOMAIN ledger :
        /\ Occurrences(ledger[e1], u) <= 1
        /\ (e1 # e2 /\ InList(ledger[e1], u)) => ~InList(ledger[e2], u)

\* The tap of rx_last is recorded: its voter is in the tapped bucket.
RecordedUnder(ledger) ==
    rx_last.emoji \in DOMAIN ledger => InList(ledger[rx_last.emoji], rx_last.user)

\* C3: after any sequence of taps every voter is in at most one bucket of the
\* ledger, at most once; the voter of the last tap is recorded under the emoji
\* tapped last (and so under no other).
C3_ReactionExclusive ==
    /\ rx_db # NoDoc => \A u \in Voters : AtMostOnce(rx_db, u)
    /\ rx_queue # NoDoc => \A u \in Voters : AtMostOnce(rx_queue, u)
    /\ rx_last.handler = "manager" => RecordedUnder(rx_db)
    /\ rx_last.handler = "channel" => RecordedUnder(rx_queue)

\* A voter who was recorded under "a" has tapped "b" and is recorded under "b",
\* next to another voter's vote.
C3_Witness ==
    /\ rx_last = [handler |-> "manager", user |-> 1, emoji |-> "b", from |-> "a"]
    /\ rx_db # NoDoc
    /\ DOMAIN rx_db = Emojis
    /\ rx_db["a"] = <<>>
    /\ rx_db["b"] = <<2, 1>>

(***************************************************************************)
(* Scheduling wizard.  commands/channelmanager.py                          *)
(***************************************************************************)
MaxMsgs == 3
Msgs == 1..MaxMsgs
MaxTime == 7300
MaxJobs == 3
HourSeconds == 3600
DefaultBatch == 10
Times == {9}
Unparsable == -1
Delays == {0, 1}
Batches == {0, 1, 2}

Min2(a, b) == IF a <= b THEN a ELSE b

Digits == <<"0", "1", "2", "3", "4", "5", "6", "7", "8", "9">>

RECURSIVE Str(_)
\* str(n) of a non-negative int: its decimal digits.
Str(n) ==
    IF n < 10 THEN <<Digits[n + 1]>>
    ELSE Str(n \div 10) \o <<Digits[(n % 10) + 1]>>

DigitVal(c) == CHOOSE i \in 0..9 : Digits[i + 1] = c

RECURSIVE IntOf(_)
\* int(s) of a string of decimal digits.
IntOf(s) ==
    IF Len(s) = 1 THEN DigitVal(s[1])
    ELSE IntOf(SubSeq(s, 1, Len(s) - 1)) * 10 + DigitVal(s[Len(s)])

RECURSIVE StrLess(_, _)
\* a < b on Python strings: code point order, a proper prefix is smaller.
StrLess(a, b) ==
    IF b = <<>> THEN FALSE
    ELSE IF a = <<>> THEN TRUE
    ELSE IF Head(a) # Head(b) THEN DigitVal(Head(a)) < DigitVal(Head(b))
    ELSE StrLess(Tail(a), Tail(b))

\* scheduled_messages is a dict: an insertion-ordered list of (time, posts).
DictKeys(d) == {d[i].time : i \in 1..Len(d)}
DictGet(d, k) == (CHOOSE i \in 1..Len(d) : d[i].time = k)
DictSet(d, k, v) ==
    IF k \in DictKeys(d)
    THEN [i \in 1..Len(d) |-> IF d[i].time = k THEN [time |-> k, posts |-> v] ELSE d[i]]
    ELSE Append(d, [time |-> k, posts |-> v])

RECURSIVE DictUpdate(_, _)
\* dict.update / dict(pairs): the pairs are set from left to right.
DictUpdate(d, pairs) ==
    IF pairs = <<>> THEN d
    ELSE DictUpdate(DictSet(d, Head(pairs).time, Head(pairs).posts), Tail(pairs))

RECURSIVE ChainValues(_)
\* chain.from_iterable(d.values())
ChainValues(d) ==
    IF d = <<>> THEN <<>> ELSE Head(d).posts \o ChainValues(Tail(d))

\* max(d.keys()) and min(d.keys()) of a non-empty dict, on strings.
MaxKey(d) == CHOOSE k \in DictKeys(d) : \A o \in DictKeys(d) : o = k \/ StrLess(o, k)
MinKey(d) == CHOOSE k \in DictKeys(d) : \A o \in DictKeys(d) : o = k \/ StrLess(k, o)

RECURSIVE chunks(_, _)
\* ChannelManager.chunks for n >= 1 (range() raises for a step of 0).
chunks(lischt, n) ==
    IF lischt = <<>> THEN <<>>
    ELSE <<SubSeq(lischt, 1, Min2(n, Len(lischt)))>>
         \o chunks(SubSeq(lischt, Min2(n, Len(lischt)) + 1, Len(lischt)), n)

\* The start time text 'now', resolved when it is parsed.
NowStr == -2

\* state_data of the wizard: the keys that are set and their values.
NoData ==
    [keys |-> {}, when |-> 0, delay |-> 0, batch |-> 0, append |-> FALSE, extend |-> FALSE]

\* str_to_utc_datetime(when) or datetime.now(), as epoch seconds; parseDT gives
\* the current time for 'now' and for a text it cannot read.
ParseWhen(when, now) == IF when \in {NowStr, Unparsable} THEN now ELSE when

\* timedelta(seconds=pytimeparse.parse(delay)) or timedelta(hours=1)
DelaySecondsNoFallback(delay) == delay
DelaySeconds(delay) == IF delay = 0 THEN HourSeconds ELSE delay

\* int(batch_size) if batch_size is not None and batch_size.isdigit() else 10
BatchSize(data) == IF "batch" \in data.keys THEN data.batch ELSE DefaultBatch

\* The (time, posts) pairs of enumerate(chunks) under str(when + delay * index).
SchedulePairs(when, delay, parts) ==
    [j \in 1..Len(parts) |-> [time |-> Str(when + delay * (j - 1)), posts |-> parts[j]]]

\* load_scheduled(channel, times=[]): one more job for every key of the channel.
LoadScheduled(jobs, scheduled) ==
    [k \in DOMAIN jobs \cup DictKeys(scheduled) |->
        (IF k \in DOMAIN jobs THEN jobs[k] ELSE 0)
        + (IF k \in DictKeys(scheduled) THEN 1 ELSE 0)]

RECURSIVE SumJobs(_, _)
SumJobs(jobs, ks) ==
    IF ks = {} THEN 0
    ELSE LET k == CHOOSE x \in ks : TRUE IN jobs[k] + SumJobs(jobs, ks \ {k})

\* The orders random.shuffle can leave the list in.
Shuffles(list) ==
    {[i \in 1..Len(list) |-> list[p[i]]] :
        p \in {q \in [1..Len(list) -> 1..Len(list)] :
                  \A a, b \in 1..Len(list) : a # b => q[a] # q[b]}}

\* create_post_menu, reached by the Cancel and Back buttons of the wizard.
ScCreatePostMenu ==
    /\ sc_shown # {}
    /\ sc_state' = CREATE_SINGLE_POST
    /\ sc_change' = FALSE
    /\ UNCHANGED <<sc_added, sc_scheduled, sc_jobs, sc_data, sc_shown, sc_last>>
    /\ FrameSchedule

\* schedule_when_menu from the Schedule button of the post menu.
ScheduleWhenMenu ==
    /\ IF ~sc_change /\ sc_added = <<>>
       THEN /\ sc_state' = CREATE_SINGLE_POST
            /\ sc_change' = FALSE
            /\ UNCHANGED sc_shown
       ELSE /\ sc_state' = SCHEDULE_ADDED_MESSAGES_WHEN
            /\ UNCHANGED sc_change
            /\ sc_shown' = sc_shown \cup {"when"}
                   \cup (IF ~sc_change /\ Len(sc_scheduled) > 0 THEN {"when+"} ELSE {})
    /\ UNCHANGED <<sc_added, sc_scheduled, sc_jobs, sc_data, sc_last>>
    /\ FrameSchedule

\* schedule_delay_menu: a start time was chosen by button or text ("time"), or the
\* Extend or Append button was pressed.  min() of an empty schedule raises after
\* the state was assigned.
ScheduleDelayMenu(kind, t) ==
    /\ kind = "time" => "when" \in sc_shown
    /\ kind \in {"extend", "append"} => "when+" \in sc_shown
    /\ sc_state' = SCHEDULE_ADDED_MESSAGES_DELAY
    /\ IF kind = "extend" /\ sc_scheduled = <<>>
       THEN UNCHANGED <<sc_data, sc_shown>>
       ELSE /\ sc_data' =
                  CASE kind = "extend" ->
                         [sc_data EXCEPT !.append = FALSE, !.extend = TRUE,
                             !.when = IF IntOf(MinKey(sc_scheduled)) # 0
                                      THEN IntOf(MinKey(sc_scheduled)) ELSE NowStr,
                             !.keys = @ \cup {"when", "flags"}]
                    [] kind = "append" ->
                         [sc_data EXCEPT !.append = TRUE, !.extend = FALSE,
                             !.keys = @ \cup {"flags"}]
                    [] OTHER ->
                         [sc_data EXCEPT !.append = FALSE, !.extend = FALSE, !.when = t,
                             !.keys = @ \cup {"when", "flags"}]
            /\ sc_shown' = sc_shown \cup {"delay"}
    /\ UNCHANGED <<sc_added, sc_scheduled, sc_jobs, sc_change, sc_last>>
    /\ FrameSchedule

\* The start time an appended schedule gets in schedule_batch_size_menu.
AppendStart(scheduled, delay, now) ==
    (IF IntOf(MaxKey(scheduled)) # 0 THEN IntOf(MaxKey(scheduled)) ELSE now) + delay

\* schedule_batch_size_menu with a delay text or button; d = Unparsable is a text
\* pytimeparse cannot read, which leads back to the delay menu.
ScheduleBatchSizeMenu(d, now) ==
    /\ "delay" \in sc_shown
    /\ IF d = Unparsable
       THEN /\ sc_state' = SCHEDULE_ADDED_MESSAGES_DELAY
            /\ sc_data' = IF "when" \in sc_data.keys
                          THEN [sc_data EXCEPT !.append = FALSE, !.extend = FALSE]
                          ELSE sc_data
            /\ UNCHANGED sc_shown
       ELSE /\ sc_state' = SCHEDULE_ADDED_MESSAGES_BATCH
            /\ IF sc_data.append /\ sc_scheduled = <<>>
               THEN /\ sc_data' = [sc_data EXCEPT !.delay = d, !.keys = @ \cup {"delay"}]
                    /\ UNCHANGED sc_shown
               ELSE /\ sc_data' =
                          [sc_data EXCEPT !.delay = d,
                              !.when = IF sc_data.append
                                       THEN AppendStart(sc_scheduled, d, now) ELSE @,
                              !.keys = @ \cup {"delay"}
                                         \cup (IF sc_data.append THEN {"when"} ELSE {})]
                    /\ sc_data'.when <= MaxTime
                    /\ sc_shown' = sc_shown \cup {"batch"}
    /\ UNCHANGED <<sc_added, sc_scheduled, sc_jobs, sc_change, sc_last>>
    /\ FrameSchedule

\* schedule_confirmation_menu with a batch size text or button; n = Unparsable is
\* a text without digits, which leads back to the batch size menu.
ScheduleConfirmationMenu(n, now) ==
    /\ "batch" \in sc_shown
    /\ IF n = Unparsable
       THEN /\ sc_state' = SCHEDULE_ADDED_MESSAGES_BATCH
            /\ IF sc_data.append /\ sc_scheduled = <<>>
               THEN UNCHANGED sc_data
               ELSE /\ sc_data' =
                          [sc_data EXCEPT
                              !.when = IF sc_data.append
                                       THEN AppendStart(sc_scheduled, sc_data.delay, now)
                                       ELSE @]
                    /\ sc_data'.when <= MaxTime
            /\ UNCHANGED sc_shown
       ELSE /\ sc_state' = SCHEDULE_ADDED_MESSAGES_CONFIRMATION
            /\ sc_data' = [sc_data EXCEPT !.batch = n, !.keys = @ \cup {"batch"}]
            /\ sc_shown' = sc_shown \cup {"confirm"}
    /\ UNCHANGED <<sc_added, sc_scheduled, sc_jobs, sc_change, sc_last>>
    /\ FrameSchedule

\* The list schedule_callback_query chunks: the added messages, followed by the
\* scheduled ones when extending, or the scheduled ones alone when rescheduling.
ScheduleMessages(added, scheduled, extend, reschedule) ==
    IF extend THEN added \o ChainValues(scheduled)
    ELSE IF reschedule THEN ChainValues(scheduled)
    ELSE added

ScheduleMode(extend, reschedule) ==
    IF extend THEN "extend" ELSE IF reschedule THEN "reschedule" ELSE "normal"

\* The job counts the removal loop of schedule_callback_query can leave behind when
\* it meets a job whose context is None: the channel's jobs standing before that
\* job in the queue's list are removed, the others stay.
PartialRemovals(jobs) ==
    {[k \in {x \in DOMAIN jobs : c[x] > 0} |-> c[k]] :
        c \in {f \in [DOMAIN jobs -> 0..MaxJobs] : \A k \in DOMAIN jobs : f[k] <= jobs[k]}}

\* schedule_callback_query from the Yes button (randomize = FALSE) or the
\* Yes and randomize button; order is the list after the optional shuffle.  A batch
\* size of 0 makes range() raise while the schedule dict is built: the jobs that an
\* extension removed stay removed and nothing is saved.  The removal loop calls
\* job.context.get on every job of the queue, which raises on a job registered
\* without a context (menu refresh, button timeout, index retry).
ScheduleCallbackQueryWith(randomize, now, order) ==
    LET when == ParseWhen(sc_data.when, now)
        delay == DelaySeconds(sc_data.delay)
        batch_size == BatchSize(sc_data)
        extend == sc_data.extend
        reschedule == sc_change
        messages == ScheduleMessages(sc_added, sc_scheduled, extend, reschedule)
        crash == (extend \/ reschedule) /\ jq_plain # {}
        base == IF extend \/ reschedule THEN <<>> ELSE sc_scheduled
        kept == IF extend \/ reschedule THEN <<>> ELSE sc_jobs
        parts == chunks(order, batch_size)
        schedule == DictUpdate(<<>>, SchedulePairs(when, delay, parts))
        merged == DictUpdate(base, schedule)
        jobs == LoadScheduled(kept, merged)
        report == [op |-> "confirm", t0 |-> when, d |-> sc_data.delay, n |-> batch_size,
                   msgs |-> messages, mode |-> ScheduleMode(extend, reschedule),
                   randomize |-> randomize, failed |-> crash \/ batch_size = 0]
    IN  /\ "confirm" \in sc_shown
        /\ sc_data.keys = {"when", "flags", "delay", "batch"}
        /\ order \in (IF randomize THEN Shuffles(messages) ELSE {messages})
        /\ sc_last' = report
        /\ IF crash
           THEN /\ sc_jobs' \in PartialRemovals(sc_jobs)
                /\ UNCHANGED <<sc_added, sc_scheduled, sc_state, sc_change>>
           ELSE IF batch_size = 0
           THEN /\ sc_jobs' = kept
                /\ UNCHANGED <<sc_added, sc_scheduled, sc_state, sc_change>>
           ELSE /\ when + delay * Len(parts) <= MaxTime
                /\ SumJobs(jobs, DOMAIN jobs) <= MaxJobs
                /\ sc_scheduled' = merged
                /\ sc_added' = <<>>
                /\ sc_jobs' = jobs
                /\ sc_state' = IF reschedule THEN CHANNEL_ACTIONS ELSE CREATE_SINGLE_POST
                /\ sc_change' = IF reschedule THEN sc_change ELSE FALSE
        /\ UNCHANGED <<sc_data, sc_shown>>
        /\ FrameSchedule

ScheduleCallbackQuery(randomize, now) ==
    \E order \in Shuffles(ScheduleMessages(sc_added, sc_scheduled, sc_data.extend,
                                           sc_change)) :
        ScheduleCallbackQueryWith(randomize, now, order)

\* The wizard starts in the post menu with some messages added to the queue.
InitSchedule ==
    /\ sc_added \in UNION {Shuffles([i \in 1..k |-> i]) : k \in 0..MaxMsgs}
    /\ sc_scheduled = <<>>
    /\ sc_jobs = <<>>
    /\ sc_state = CREATE_SINGLE_POST
    /\ sc_data = NoData
    /\ sc_change = FALSE
    /\ sc_shown = {}
    /\ sc_last = NoConfirm
    /\ IdleState
    /\ IdleReact
    /\ IdlePost
    /\ IdleRegister
    /\ IdleButton
    /\ IdleLock
    /\ IdleMenu
    /\ IdleQueue
    /\ IdleBoot
    /\ IdleDebounce
    /\ IdleSave
    /\ IdleCurrent
    /\ IdleReset
    /\ IdleSettings
    /\ IdleImport
    /\ IdleMigration
    /\ IdleRetry
    /\ IdleSearch
    /\ IdleWizard
    /\ IdleDelivery
    /\ IdleMutex

NextSchedule ==
    \/ ScCreatePostMenu
    \/ ScheduleWhenMenu
    \/ \E kind \in {"time", "extend", "append"}, t \in Times \cup {NowStr} :
          ScheduleDelayMenu(kind, t)
    \/ \E d \in Delays \cup {Unparsable}, now \in Times : ScheduleBatchSizeMenu(d, now)
    \/ \E n \in Batches \cup {Unparsable}, now \in Times : ScheduleConfirmationMenu(n, now)
    \/ \E randomize \in BOOLEAN, now \in Times : ScheduleCallbackQuery(randomize, now)

SpecSchedule == InitSchedule /\ [][NextSchedule]_vars

\* The number of chunks of n messages that k messages fall into.
NumChunks(k, n) == IF n = 0 THEN 0 ELSE (k + n - 1) \div n

\* The stored schedule holds, for every j, the j-th consecutive chunk of n of the
\* confirmed messages under the key str(t0 + j * d).
ChunksStoredEvery(d) ==
    \A j \in 0..(NumChunks(Len(sc_last.msgs), sc_last.n) - 1) :
        /\ Str(sc_last.t0 + j * d) \in DictKeys(sc_scheduled)
        /\ sc_scheduled[DictGet(sc_scheduled, Str(sc_last.t0 + j * d))].posts
              = SubSeq(sc_last.msgs, j * sc_last.n + 1,
                       Min2((j + 1) * sc_last.n, Len(sc_last.msgs)))

MaxFiles == 2
Files == 1..MaxFiles
MaxAdded == 2
MaxSent == 3
MaxSends == 2
LikelySent == 10
PossiblySent == 30
QueueBlock == 80

\* Results of the similarity search for the channel: distances in hundredths.
SimilarResults == {<<>>, <<5, 40>>, <<20>>, <<50>>, <<90>>}

SeqSet(list) == {list[i] : i \in 1..Len(list)}

\* The ChannelSettings document as loaded by a dispatch: nothing changed yet.
LoadChannel(db) ==
    [added |-> db.added, queued |-> db.queued, sent |-> db.sent, dirty |-> {},
     dirtyq |-> {}]

\* ChannelSettings.save on a stored document: the changed fields are written;
\* a changed key of queued_messages is set, or unset when it was deleted.
SaveChannel(db, cur) ==
    [added |-> IF "added" \in cur.dirty THEN cur.added ELSE db.added,
     sent |-> IF "sent" \in cur.dirty THEN cur.sent ELSE db.sent,
     queued |-> [k \in ((DOMAIN db.queued) \ (cur.dirtyq \ DOMAIN cur.queued))
                          \cup (cur.dirtyq \cap DOMAIN cur.queued) |->
                    IF k \in cur.dirtyq THEN cur.queued[k] ELSE db.queued[k]]]

Clean(cur) == [cur EXCEPT !.dirty = {}, !.dirtyq = {}]

\* get_sent_file_id_of_chat: the cache of the channel when there is one, the
\* stored sent messages otherwise.
SentFileIds(db, cache) ==
    IF cache.present THEN SeqSet(cache.ids) ELSE SeqSet(db.sent)

QueuedFileIds(channel) ==
    UNION {SeqSet(channel.queued[k]) : k \in DOMAIN channel.queued}

AddedFileIds(channel) == SeqSet(channel.added)

\* get_all_file_ids_of_channel
AllFileIds(db, channel, cache) ==
    SentFileIds(db, cache) \cup QueuedFileIds(channel) \cup AddedFileIds(channel)

AnyWithin(dists, limit) == \E i \in 1..Len(dists) : dists[i] <= limit

\* The branch queue_message_message_handler takes for a supported message.
QueueRefused(ids, file, dists) == file \in ids \/ AnyWithin(dists, QueueBlock)

\* The marker text of the branch that queues the message.
QueueMarker(dists) ==
    IF AnyWithin(dists, LikelySent) THEN "90"
    ELSE IF AnyWithin(dists, PossiblySent) THEN "70"
    ELSE "none"

NoCache == [present |-> FALSE, ids |-> <<>>]

\* sent_file_id_cache after a message with this file id was sent to the channel.
CacheAdd(cache, file) ==
    IF cache.present THEN [cache EXCEPT !.ids = Append(@, file)]
    ELSE [present |-> TRUE, ids |-> <<file>>]

\* queue_message_message_handler for an incoming message in CREATE_SINGLE_POST;
\* the dispatch loads the state and channel objects first.
QueueMessage(file, supported, dists) ==
    LET channel == LoadChannel(p_db)
        ids == AllFileIds(p_db, channel, p_cache)
        exact == file \in SeqSet(p_db.sent) \cup QueuedFileIds(channel)
                          \cup AddedFileIds(channel)
        refused == QueueRefused(ids, file, dists)
        appended == [channel EXCEPT !.added = Append(@, file), !.dirty = @ \cup {"added"}]
    IN  /\ p_state = CREATE_SINGLE_POST
        /\ Len(p_db.added) < MaxAdded
        /\ IF ~supported
           THEN /\ p_cur' = channel
                /\ p_last' = [op |-> "queue", file |-> file, dists |-> dists,
                              exact |-> exact, result |-> "unsupported", marker |-> "none"]
                /\ UNCHANGED <<p_db, p_job>>
           ELSE /\ p_job' = TRUE
                /\ IF refused
                   THEN /\ p_cur' = channel
                        /\ p_last' = [op |-> "queue", file |-> file, dists |-> dists,
                                      exact |-> exact, result |-> "refused",
                                      marker |-> "none"]
                        /\ UNCHANGED p_db
                   ELSE /\ p_db' = SaveChannel(p_db, appended)
                        /\ p_cur' = Clean(appended)
                        /\ p_last' = [op |-> "queue", file |-> file, dists |-> dists,
                                      exact |-> exact, result |-> "queued",
                                      marker |-> QueueMarker(dists)]
        /\ p_chat' = "user"
        /\ UNCHANGED <<p_cache, p_state, p_w, p_uuid>>
        /\ FramePost

\* The debounced job of the queue handler: create_post_menu.
PostMenuJob ==
    /\ p_job
    /\ p_job' = FALSE
    /\ p_state' = CREATE_SINGLE_POST
    /\ UNCHANGED <<p_db, p_cur, p_cache, p_w, p_uuid, p_chat, p_last>>
    /\ FramePost

\* The Send or Preview button is dispatched: on_call loads the objects, the
\* handler body runs on a worker thread.
SendPostDispatch(preview) ==
    /\ p_w.pc = "idle"
    /\ p_uuid < MaxSends
    /\ p_cur' = LoadChannel(p_db)
    /\ p_w' = [NoWorker EXCEPT !.pc = "dispatched", !.preview = preview]
    /\ p_chat' = "user"
    /\ UNCHANGED <<p_db, p_cache, p_state, p_job, p_uuid, p_last>>
    /\ FramePost

\* send_post_callback_query, the assignment of SEND_LOCKED.
SendPostLock ==
    /\ p_w.pc = "dispatched"
    /\ p_state' = SEND_LOCKED
    /\ p_w' = [p_w EXCEPT !.pc = "locked"]
    /\ UNCHANGED <<p_db, p_cur, p_cache, p_job, p_uuid, p_chat, p_last>>
    /\ FramePost

\* send_post_callback_query up to the loop: the added messages move under a new
\* uuid of queued_messages (not for a preview), the channel is saved, the state is
\* set to CREATE_SINGLE_POST and the post menu is drawn again.
SendPostMove ==
    LET messages == p_cur.added
        uuid == p_uuid + 1
        moved == IF p_w.preview
                 THEN [p_cur EXCEPT !.dirty = @ \cup {"added"}]
                 ELSE [p_cur EXCEPT
                          !.queued = [k \in DOMAIN @ \cup {uuid} |->
                                         IF k = uuid THEN messages ELSE @[k]],
                          !.added = <<>>,
                          !.dirty = @ \cup {"added"},
                          !.dirtyq = @ \cup {uuid}]
    IN  /\ p_w.pc = "locked"
        /\ p_db' = SaveChannel(p_db, moved)
        /\ p_cur' = Clean(moved)
        /\ p_state' = CREATE_SINGLE_POST
        /\ p_uuid' = IF p_w.preview THEN p_uuid ELSE uuid
        /\ p_w' = [p_w EXCEPT !.pc = "loop", !.uuid = IF p_w.preview THEN 0 ELSE uuid,
                              !.messages = messages, !.rest = messages,
                              !.send_to = IF p_w.preview THEN p_chat ELSE "channel"]
        /\ UNCHANGED <<p_cache, p_job, p_chat, p_last>>
        /\ FramePost

\* A rollback that only drops the slot of the batch.
RollBackDropsBatch(cur, uuid) ==
    [cur EXCEPT !.queued = [k \in (DOMAIN @) \ {uuid} |-> @[k]],
                !.dirtyq = @ \cup {uuid}]

\* The rollback of send_post_callback_query after a failed send: the messages
\* still queued under the uuid go back to added_messages.
RollBack(cur, uuid) ==
    [cur EXCEPT !.added = @ \o cur.queued[uuid],
                !.queued = [k \in (DOMAIN @) \ {uuid} |-> @[k]],
                !.dirty = @ \cup {"added"},
                !.dirtyq = @ \cup {uuid}]

\* What is known directly after the except branch of the loop was left with raise:
\* the batch, the messages whose send call returned, the stored channel and the
\* worker.
SendError(w, delivered, db, after) ==
    [op |-> "send_error", preview |-> w.preview, uuid |-> w.uuid, batch |-> w.messages,
     delivered |-> delivered, added |-> db.added, slots |-> DOMAIN db.queued,
     worker |-> after.pc]

\* One pass of the sending loop for the next message; outcome is what the send
\* call does: "ok", "timeout" (TimedOut is passed over) or "error".
SendPostOne(outcome) ==
    LET m == Head(p_w.rest)
        uuid == p_w.uuid
        listed == uuid \in DOMAIN p_cur.queued /\ m \in SeqSet(p_cur.queued[uuid])
        failed == outcome = "error" \/ (outcome = "ok" /\ ~p_w.preview /\ ~listed)
        recorded == [p_cur EXCEPT !.queued[uuid] = RemoveFirst(@, m),
                                  !.sent = Append(@, m),
                                  !.dirty = @ \cup {"sent"},
                                  !.dirtyq = @ \cup {uuid}]
        delivered == IF outcome = "ok" THEN Append(p_w.delivered, m) ELSE p_w.delivered
    IN  /\ p_w.pc = "loop"
        /\ p_w.rest # <<>>
        /\ Len(p_cur.sent) < MaxSent
        /\ IF failed
           THEN /\ p_w' = NoWorker
                /\ IF p_w.preview
                   THEN /\ p_state' = CREATE_SINGLE_POST
                        /\ UNCHANGED <<p_db, p_cur>>
                   ELSE IF uuid \in DOMAIN p_cur.queued
                   THEN /\ p_db' = SaveChannel(p_db, RollBack(p_cur, uuid))
                        /\ p_cur' = Clean(RollBack(p_cur, uuid))
                        /\ p_state' = CREATE_SINGLE_POST
                   ELSE UNCHANGED <<p_db, p_cur, p_state>>
                /\ UNCHANGED p_cache
                /\ p_last' = SendError(p_w, delivered, p_db', p_w')
           ELSE /\ p_w' = [p_w EXCEPT !.rest = Tail(@), !.delivered = delivered]
                /\ UNCHANGED p_last
                /\ IF outcome = "ok" /\ ~p_w.preview
                   THEN /\ p_cache' = CacheAdd(p_cache, m)
                        /\ p_cur' = recorded
                   ELSE UNCHANGED <<p_cache, p_cur>>
                /\ UNCHANGED <<p_db, p_state>>
        /\ UNCHANGED <<p_job, p_uuid, p_chat>>
        /\ FramePost

\* After the loop: the channel is saved; a preview draws the post menu again, a
\* real send deletes the uuid from the in-memory queued_messages.
SendPostFinish ==
    /\ p_w.pc = "loop"
    /\ p_w.rest = <<>>
    /\ p_db' = SaveChannel(p_db, p_cur)
    /\ IF p_w.preview
       THEN /\ p_state' = CREATE_SINGLE_POST
            /\ p_cur' = Clean(p_cur)
       ELSE /\ UNCHANGED p_state
            /\ p_cur' = [p_cur EXCEPT
                            !.queued = [k \in (DOMAIN @) \ {p_w.uuid} |-> @[k]],
                            !.dirty = {},
                            !.dirtyq = {p_w.uuid} \cap DOMAIN p_cur.queued]
    /\ p_w' = NoWorker
    /\ UNCHANGED <<p_cache, p_job, p_uuid, p_chat, p_last>>
    /\ FramePost

\* The file of a post that was published in the channel by somebody else.
PostedFile == 9

\* A post that somebody else published in the channel reaches the bot: on_call
\* makes the channel the shared chat (the update has no user, the state object
\* stays), add_channel_post_message_handler appends the post to the stored
\* sent_messages unless it is stored as sent or queued.
ChannelPost(file) ==
    LET blacklist == SeqSet(p_db.sent) \cup QueuedFileIds(p_db)
    IN  /\ Len(p_db.sent) < MaxSent
        /\ p_chat' = "channel"
        /\ p_db' = IF file \in blacklist THEN p_db
                   ELSE [p_db EXCEPT !.sent = Append(@, file)]
        /\ UNCHANGED <<p_cur, p_cache, p_state, p_w, p_job, p_uuid, p_last>>
        /\ FramePost

\* The process is restarted: objects, cache, jobs and worker threads are gone.
PostRestart ==
    /\ p_cur' = NoObj
    /\ p_cache' = NoCache
    /\ p_w' = NoWorker
    /\ p_job' = FALSE
    /\ p_chat' = NoChatYet
    /\ UNCHANGED <<p_db, p_state, p_uuid, p_last>>
    /\ FramePost

\* The user is in the post menu of a channel without messages.
InitPost ==
    /\ p_db = [added |-> <<>>, queued |-> <<>>, sent |-> <<>>]
    /\ p_cur = NoObj
    /\ p_cache = NoCache
    /\ p_state = CREATE_SINGLE_POST
    /\ p_w = NoWorker
    /\ p_job = FALSE
    /\ p_uuid = 0
    /\ p_chat = NoChatYet
    /\ p_last = NoQueueing
    /\ IdleState
    /\ IdleReact
    /\ IdleSchedule
    /\ IdleRegister
    /\ IdleButton
    /\ IdleLock
    /\ IdleMenu
    /\ IdleQueue
    /\ IdleBoot
    /\ IdleDebounce
    /\ IdleSave
    /\ IdleCurrent
    /\ IdleReset
    /\ IdleSettings
    /\ IdleImport
    /\ IdleMigration
    /\ IdleRetry
    /\ IdleSearch
    /\ IdleWizard
    /\ IdleDelivery
    /\ IdleMutex

NextPost ==
    \/ \E file \in Files, supported \in BOOLEAN, dists \in SimilarResults :
          QueueMessage(file, supported, dists)
    \/ PostMenuJob
    \/ \E preview \in BOOLEAN : SendPostDispatch(preview)
    \/ SendPostLock
    \/ SendPostMove
    \/ \E outcome \in {"ok", "timeout", "error"} : SendPostOne(outcome)
    \/ SendPostFinish
    \/ PostRestart

SpecPost == InitPost /\ [][NextPost]_vars

\* C2: a supported incoming message whose file id is a file id of a message in the
\* stored sent_messages, queued_messages or added_messages of the channel is never
\* queued, whatever queueing, previews, sends and restarts came before.
C2_DuplicateRefused ==
    (p_last.op = "queue" /\ p_last.exact) => p_last.result # "queued"

\* A message whose file id is stored in sent_messages was queued after a restart
\* and another send.
C2_Witness ==
    /\ p_last.op = "queue" /\ p_last.exact /\ p_last.result = "queued"
    /\ p_last.file \in SeqSet(p_db.sent)
    /\ p_last.file \in SeqSet(p_db.added)

\* C5: a supported message without an exact match gets the 90% marker when some
\* match is within 0.1, else the 70% marker when some match is within 0.3, else
\* no marker.
C5_Markers ==
    (p_last.op = "queue" /\ p_last.result # "unsupported" /\ ~p_last.exact)
        => p_last.marker = QueueMarker(p_last.dists)

\* The matches [0.05, 0.4] were handled and no marker was attached.
C5_Witness ==
    /\ p_last.op = "queue" /\ ~p_last.exact
    /\ p_last.dists = <<5, 40>>
    /\ p_last.result = "refused"
    /\ p_last.marker = "none"

\* C6: a supported message without an exact match whose closest match is within
\* 0.3 is appended to added_messages.
C6_MarkerNeverBlocks ==
    (p_last.op = "queue" /\ p_last.result # "unsupported" /\ ~p_last.exact
        /\ AnyWithin(p_last.dists, PossiblySent))
        => p_last.result = "queued"

\* A message whose only match is at 0.2 was refused.
C6_Witness ==
    /\ p_last.op = "queue" /\ ~p_last.exact
    /\ p_last.dists = <<20>>
    /\ p_last.result = "refused"

\* C10: while a real send has messages left to send to the channel, the state of
\* the user is SEND_LOCKED.
C10_LockedWhileSending ==
    (p_w.pc = "loop" /\ ~p_w.preview /\ p_w.rest # <<>>) => p_state = SEND_LOCKED

\* A real send is between its first and its second message and the user is back
\* in CREATE_SINGLE_POST.
C10_Witness ==
    /\ p_w.pc = "loop" /\ ~p_w.preview
    /\ Len(p_w.messages) = 2 /\ Len(p_w.rest) = 1
    /\ p_state = CREATE_SINGLE_POST

(***************************************************************************)
(* Registering a channel.  commands/channelmanager.py, commands/channel.py *)
(***************************************************************************)
RegUsers == {1}
Channels == {1, 2}
MaxWorkers == 2
Workers == 1..MaxWorkers
MaxForwards == 3
NoChat == 0
Pairs == RegUsers \X Channels

NoRegistration == [pc |-> "idle", chat |-> 0, user |-> 0]

\* permission.is_admin decides whether the handler goes on to create the document.
PermittedAlways(is_admin) == TRUE
Permitted(is_admin) == is_admin

\* add_channel_command: the instruction is sent and the state of the user becomes
\* ADDING_CHANNEL.
RegAddChannelCommand(u) ==
    /\ r_ctx' = [user |-> u, chat |-> NoChat]
    /\ r_state' = [r_state EXCEPT ![u] = ADDING_CHANNEL]
    /\ UNCHANGED <<r_docs, r_current, r_w, r_admin, l_admin, l_state, r_n, r_last>>
    /\ FrameRegister

\* message_handler_dispatcher for a message of a user in ADDING_CHANNEL: on_call
\* sets the shared user, message and state objects, the handler body is handed
\* to a free worker thread (the first free one: the threads are interchangeable).
RegDispatch(w, u, chat) ==
    /\ r_w[w].pc = "idle"
    /\ \A v \in Workers : v < w => r_w[v].pc # "idle"
    /\ r_state[u] = ADDING_CHANNEL
    /\ r_n < MaxForwards
    /\ r_n' = r_n + 1
    /\ r_ctx' = [user |-> u, chat |-> chat]
    /\ r_w' = [r_w EXCEPT ![w] = [NoRegistration EXCEPT !.pc = "start"]]
    /\ UNCHANGED <<r_docs, r_state, r_current, r_admin, l_admin, l_state, r_last>>
    /\ FrameRegister

\* register_channel_message_handler up to the lookup of an existing document; the
\* chat and the user are read from the shared message and user objects.  A message
\* that is no forward from a channel raises at channel_chat.id.
RegCheck(w) ==
    /\ r_w[w].pc = "start"
    /\ IF r_ctx.chat = NoChat
       THEN /\ r_w' = [r_w EXCEPT ![w] = NoRegistration]
            /\ r_last' = [handler |-> "manager", user |-> r_ctx.user, chat |-> NoChat,
                          result |-> "no channel"]
       ELSE IF r_docs[<<r_ctx.user, r_ctx.chat>>] > 0
       THEN /\ r_w' = [r_w EXCEPT ![w] = NoRegistration]
            /\ r_last' = [handler |-> "manager", user |-> r_ctx.user, chat |-> r_ctx.chat,
                          result |-> "already added"]
       ELSE /\ r_w' = [r_w EXCEPT ![w] = [pc |-> "checked", chat |-> r_ctx.chat,
                                          user |-> r_ctx.user]]
            /\ UNCHANGED r_last
    /\ UNCHANGED <<r_docs, r_state, r_current, r_ctx, r_admin, l_admin, l_state, r_n>>
    /\ FrameRegister

\* get_channel_permissions_for_bot and the administrator test.
RegPermission(w) ==
    /\ r_w[w].pc = "checked"
    /\ IF Permitted(r_admin[r_w[w].chat])
       THEN /\ r_w' = [r_w EXCEPT ![w].pc = "permitted"]
            /\ UNCHANGED r_last
       ELSE /\ r_w' = [r_w EXCEPT ![w] = NoRegistration]
            /\ r_last' = [handler |-> "manager", user |-> r_w[w].user, chat |-> r_w[w].chat,
                          result |-> "not admin"]
    /\ UNCHANGED <<r_docs, r_state, r_current, r_ctx, r_admin, l_admin, l_state, r_n>>
    /\ FrameRegister

\* The rest of the handler: a ChannelSettings document of the shared user and the
\* chat is created and saved, then list_channels_menu clears current_channel and
\* sets the state of the shared state object to IDLE.
RegCreate(w) ==
    LET user == r_ctx.user
        pair == <<r_ctx.user, r_w[w].chat>>
    IN  /\ r_w[w].pc = "permitted"
        /\ r_docs' = [r_docs EXCEPT ![pair] = @ + 1]
        /\ r_current' = [r_current EXCEPT ![user] = NoChat]
        /\ r_state' = [r_state EXCEPT ![user] = IDLE]
        /\ r_w' = [r_w EXCEPT ![w] = NoRegistration]
        /\ r_last' = [handler |-> "manager", user |-> user, chat |-> r_w[w].chat,
                      result |-> "added"]
        /\ UNCHANGED <<r_ctx, r_admin, l_admin, l_state, r_n>>
        /\ FrameRegister

\* Channel.add_channel_start: set_user_state(user, ADDING_CHANNEL).
RegLegacyStart(u) ==
    /\ l_state[u].state # SEND_LOCKED
    /\ l_state' = [l_state EXCEPT ![u] = [state |-> ADDING_CHANNEL, chat |-> NoChat]]
    /\ UNCHANGED <<r_docs, r_state, r_current, r_ctx, r_w, r_admin, l_admin, r_n, r_last>>
    /\ FrameRegister

\* The outcome of Channel.add_channel_from_message for a forwarded message.
LegacyResult(admins, is_admin, u, chat) ==
    IF chat = NoChat THEN "no channel"
    ELSE IF <<u, chat>> \in admins THEN "already added"
    ELSE IF ~Permitted(is_admin) THEN "not admin"
    ELSE "added"

\* Channel.add_channel_from_message: user and chat are taken from the update; the
\* channel_admin record is upserted and the state is set to IDLE.
RegLegacyForward(u, chat) ==
    LET result == LegacyResult(l_admin, chat # NoChat /\ r_admin[chat], u, chat)
    IN  /\ l_state[u].state = ADDING_CHANNEL
        /\ r_n < MaxForwards
        /\ r_n' = r_n + 1
        /\ r_last' = [handler |-> "channel", user |-> u, chat |-> chat, result |-> result]
        /\ IF result = "added"
           THEN /\ l_admin' = l_admin \cup {<<u, chat>>}
                /\ l_state' = [l_state EXCEPT ![u] = [state |-> IDLE, chat |-> NoChat]]
           ELSE UNCHANGED <<l_admin, l_state>>
        /\ UNCHANGED <<r_docs, r_state, r_current, r_ctx, r_w, r_admin>>
        /\ FrameRegister

\* A user has at most the channel they selected registered; the bot is an
\* administrator in some of the channels.
InitRegister ==
    /\ r_current \in [RegUsers -> Channels \cup {NoChat}]
    /\ r_docs = [p \in Pairs |-> IF r_current[p[1]] = p[2] THEN 1 ELSE 0]
    /\ r_state = [u \in RegUsers |-> IDLE]
    /\ r_ctx = [user |-> 0, chat |-> NoChat]
    /\ r_w = [w \in Workers |-> NoRegistration]
    /\ r_admin \in [Channels -> BOOLEAN]
    /\ l_admin = {}
    /\ l_state = [u \in RegUsers |-> [state |-> IDLE, chat |-> NoChat]]
    /\ r_n = 0
    /\ r_last = NoForward
    /\ IdleState
    /\ IdleReact
    /\ IdleSchedule
    /\ IdlePost
    /\ IdleButton
    /\ IdleLock
    /\ IdleMenu
    /\ IdleQueue
    /\ IdleBoot
    /\ IdleDebounce
    /\ IdleSave
    /\ IdleCurrent
    /\ IdleReset
    /\ IdleSettings
    /\ IdleImport
    /\ IdleMigration
    /\ IdleRetry
    /\ IdleSearch
    /\ IdleWizard
    /\ IdleDelivery
    /\ IdleMutex

NextRegister ==
    \/ \E u \in RegUsers : RegAddChannelCommand(u)
    \/ \E w \in Workers, u \in RegUsers, chat \in Channels \cup {NoChat} :
          RegDispatch(w, u, chat)
    \/ \E w \in Workers : RegCheck(w)
    \/ \E w \in Workers : RegPermission(w)
    \/ \E w \in Workers : RegCreate(w)
    \/ \E u \in RegUsers : RegLegacyStart(u)
    \/ \E u \in RegUsers, chat \in Channels \cup {NoChat} : RegLegacyForward(u, chat)

SpecRegister == InitRegister /\ [][NextRegister]_vars

\* C7: the handling of a forward from a channel in which the bot is no
\* administrator creates no ChannelSettings document and changes neither the
\* current channel nor the state: a worker changes them only after the permission
\* check found the bot to be an administrator, and the legacy handler changes its
\* records only when the result is "added".
C7_NonAdminNoEffect ==
    [][/\ \A w \in Workers :
             /\ (r_w'[w] # r_w[w] /\ r_w[w].pc # "permitted")
                   => UNCHANGED <<r_docs, r_current, r_state>>
             /\ r_w'[w].pc = "permitted" => r_admin[r_w'[w].chat]
       /\ (r_last' # r_last /\ r_last'.result = "not admin")
             => /\ UNCHANGED <<r_docs, r_current, r_state, l_admin, l_state>>
                /\ ~r_admin[r_last'.chat]]_vars

\* A forward from a channel without administrator rights was handled: the user is
\* still in ADDING_CHANNEL, has no document for the channel and still has the
\* channel selected that they had selected before.
C7_Witness ==
    /\ r_last.handler = "manager" /\ r_last.result = "not admin"
    /\ r_state[r_last.user] = ADDING_CHANNEL
    /\ r_docs[<<r_last.user, r_last.chat>>] = 0
    /\ r_current[r_last.user] \in Channels \ {r_last.chat}
    /\ \A w \in Workers : r_w[w].pc = "idle"

\* C8: there is at most one ChannelSettings document per (user, channel) pair.
C8_AtMostOneDocument == \A p \in Pairs : r_docs[p] <= 1

\* Two workers registered the same channel for the same user.
C8_Witness == \E p \in Pairs : r_docs[p] = 2

(***************************************************************************)
(* Buttons with a yes / no confirmation.  utils/magic_buttons.py           *)
(***************************************************************************)
MaxButtons == 4
NoButton == 0
NoCallback == "None"

\* Buttons of commands/channel.py: Preview, Clear Queue and Send of the post menu
\* and Cancel of the channel actions.  Clear Queue and Send ask first; data is
\* {'chat_id': ...} or empty.
ButtonKinds ==
    { [yes_no |-> FALSE, callback |-> "send_post_callback_query", chat_id |-> 1,
       no_callback |-> NoCallback],
      [yes_no |-> TRUE, callback |-> "clear_queue_callback_query", chat_id |-> 1,
       no_callback |-> "create_post_callback_query"],
      [yes_no |-> TRUE, callback |-> "send_post_callback_query", chat_id |-> 1,
       no_callback |-> "create_post_callback_query"],
      [yes_no |-> FALSE, callback |-> "list_channels", chat_id |-> 0,
       no_callback |-> NoCallback] }

\* MagicButton.__init__: the attributes of a new button.
NewButton(kind) ==
    [yes_no |-> kind.yes_no,
     data |-> [chat_id |-> kind.chat_id, original |-> NoButton, yes_no_answer |-> ""],
     callback |-> kind.callback,
     no_callback |-> kind.no_callback]

\* MagicButton.copy(yes_no=False, data={'original': id, 'yes_no_answer': answer}).
Copy(button, id, answer) ==
    [button EXCEPT !.yes_no = FALSE,
                   !.data = [chat_id |-> 0, original |-> id, yes_no_answer |-> answer]]

\* button.data.get('yes_no_answer') or 'yes' if not button.yes_no else False
YesNoAnswer(button) ==
    IF ~button.yes_no
    THEN IF button.data.yes_no_answer # "" THEN button.data.yes_no_answer ELSE "yes"
    ELSE ""

\* A button is constructed for a menu: it gets the next id, is put into
\* all_buttons and its removal is scheduled 24 hours later.
BtnCreate(kind) ==
    /\ Len(b_btn) < MaxButtons
    /\ b_btn' = Append(b_btn, NewButton(kind))
    /\ b_all' = b_all \cup {Len(b_btn) + 1}
    /\ UNCHANGED <<b_ttl, b_last>>
    /\ FrameButton

\* MagicButton.message_handler for a tap on the button with this id.
BtnTap(id) ==
    LET button == b_btn[id]
        answer == YesNoAnswer(button)
        method == IF answer = "yes" THEN button.callback ELSE button.no_callback
        original == button.data.original
        original_data == IF original # NoButton THEN b_btn[original].data ELSE button.data
        n == Len(b_btn)
    IN  /\ id \in 1..Len(b_btn)
        /\ IF id \notin b_all
           THEN /\ b_last' = [id |-> id, known |-> FALSE, outcome |-> "timed out",
                              made |-> <<>>]
                /\ UNCHANGED <<b_btn, b_all>>
           ELSE IF answer # ""
           THEN /\ b_last' =
                      IF original # NoButton /\ original \notin b_all
                      THEN [id |-> id, known |-> TRUE, outcome |-> "AttributeError",
                            made |-> <<>>]
                      ELSE [id |-> id, known |-> TRUE,
                            outcome |-> IF button.data.yes_no_answer # ""
                                        THEN "called, deleted" ELSE "called",
                            made |-> <<[method |-> method, data |-> original_data]>>]
                /\ UNCHANGED <<b_btn, b_all>>
           ELSE /\ n + 2 <= MaxButtons
                /\ b_btn' = b_btn \o <<Copy(button, id, "yes"), Copy(button, id, "no")>>
                /\ b_all' = b_all \cup {n + 1, n + 2}
                /\ b_last' = [id |-> id, known |-> TRUE, outcome |-> "prompt",
                              made |-> <<>>]
        /\ UNCHANGED b_ttl
        /\ FrameButton

\* The job of the oldest button whose job has not yet run fires 24 hours after
\* the button was constructed: del_self.
BtnTimeout ==
    /\ b_ttl < Len(b_btn)
    /\ b_ttl' = b_ttl + 1
    /\ b_all' = b_all \ {b_ttl + 1}
    /\ UNCHANGED <<b_btn, b_last>>
    /\ FrameButton

\* invalidate_by_user_id: every button of the user is removed.
BtnInvalidate ==
    /\ b_all # {}
    /\ b_all' = {}
    /\ UNCHANGED <<b_btn, b_ttl, b_last>>
    /\ FrameButton

InitButton ==
    /\ b_btn = <<>>
    /\ b_all = {}
    /\ b_ttl = 0
    /\ b_last = NoTap
    /\ IdleState
    /\ IdleReact
    /\ IdleSchedule
    /\ IdlePost
    /\ IdleRegister
    /\ IdleLock
    /\ IdleMenu
    /\ IdleQueue
    /\ IdleBoot
    /\ IdleDebounce
    /\ IdleSave
    /\ IdleCurrent
    /\ IdleReset
    /\ IdleSettings
    /\ IdleImport
    /\ IdleMigration
    /\ IdleRetry
    /\ IdleSearch
    /\ IdleWizard
    /\ IdleDelivery
    /\ IdleMutex

NextButton ==
    \/ \E kind \in ButtonKinds : BtnCreate(kind)
    \/ \E id \in 1..MaxButtons : BtnTap(id)
    \/ BtnTimeout
    \/ BtnInvalidate

SpecButton == InitButton /\ [][NextButton]_vars

\* The tapped button and the button it stands for.
Tapped == b_btn[b_last.id]
Original == b_btn[Tapped.data.original]

\* C9: a tap on a registered button that asks for confirmation invokes nothing
\* and shows the Yes / No prompt; a tap on its Yes invokes the callback exactly
\* once with the data of the original button; a tap on its No invokes the
\* no_callback and not the callback; a tap on a registered button without
\* confirmation invokes its callback.
C9_ConfirmationRoundTrip ==
    (b_last.id # NoButton /\ b_last.known) =>
        /\ Tapped.yes_no => b_last.outcome = "prompt" /\ b_last.made = <<>>
        /\ (~Tapped.yes_no /\ Tapped.data.yes_no_answer = "yes") =>
              b_last.made = <<[method |-> Original.callback, data |-> Original.data]>>
        /\ (~Tapped.yes_no /\ Tapped.data.yes_no_answer = "no") =>
              /\ Len(b_last.made) = 1
              /\ b_last.made[1].method = Original.no_callback
        /\ (~Tapped.yes_no /\ Tapped.data.yes_no_answer = "") =>
              b_last.made = <<[method |-> Tapped.callback, data |-> Tapped.data]>>

\* The Yes of a prompt was tapped after the job of the original button had removed
\* it and before the job of the Yes button ran: nothing was invoked.
C9_Witness ==
    /\ b_last.known /\ b_last.outcome = "AttributeError"
    /\ Tapped.data.yes_no_answer = "yes"
    /\ b_last.id \in b_all
    /\ b_ttl = Tapped.data.original

(***************************************************************************)
(* Handlers of a user whose state is SEND_LOCKED.                          *)
(* commands/channelmanager.py, commands/channel.py                         *)
(***************************************************************************)
MaxLockMsgs == 1
InProgress == "Sending currently in progress, please stand by."

\* What a handler call is recorded as.
Call(side, handler, state, reply) ==
    [tick |-> ~k_last.tick, side |-> side, handler |-> handler,
     locked |-> (state = SEND_LOCKED), reply |-> reply]

FrameManager == UNCHANGED <<lk_state, lk_queue, lk_run, lk_send, varsMenu, varsQueue, varsBoot, varsDebounce, varsSave, varsCurrent, varsReset, varsSettings, varsImport, varsMigration, varsRetry, varsSearch, varsWizard, varsDelivery, varsMutex>>
FrameLegacy == UNCHANGED <<k_state, k_added, k_queued, k_w, varsMenu, varsQueue, varsBoot, varsDebounce, varsSave, varsCurrent, varsReset, varsSettings, varsImport, varsMigration, varsRetry, varsSearch, varsWizard, varsDelivery, varsMutex>>
FrameMenu == UNCHANGED <<varsState, varsReact, varsSchedule, varsPost, varsRegister, varsButton, varsLock, varsQueue, varsBoot, varsDebounce, varsSave, varsCurrent, varsReset, varsSettings, varsImport, varsMigration, varsRetry, varsSearch, varsWizard, varsDelivery, varsMutex>>
FrameQueue == UNCHANGED <<varsState, varsReact, varsSchedule, varsPost, varsRegister, varsButton, varsLock, varsMenu, varsBoot, varsDebounce, varsSave, varsCurrent, varsReset, varsSettings, varsImport, varsMigration, varsRetry, varsSearch, varsWizard, varsDelivery, varsMutex>>
FrameBoot == UNCHANGED <<varsState, varsReact, varsSchedule, varsPost, varsRegister, varsButton, varsLock, varsMenu, varsQueue, varsDebounce, varsSave, varsCurrent, varsReset, varsSettings, varsImport, varsMigration, varsRetry, varsSearch, varsWizard, varsDelivery, varsMutex>>
FrameDebounce == UNCHANGED <<varsState, varsReact, varsSchedule, varsPost, varsRegister, varsButton, varsLock, varsMenu, varsQueue, varsBoot, varsSave, varsCurrent, varsReset, varsSettings, varsImport, varsMigration, varsRetry, varsSearch, varsWizard, varsDelivery, varsMutex>>
FrameSave == UNCHANGED <<varsState, varsReact, varsSchedule, varsPost, varsRegister, varsButton, varsLock, varsMenu, varsQueue, varsBoot, varsDebounce, varsCurrent, varsReset, varsSettings, varsImport, varsMigration, varsRetry, varsSearch, varsWizard, varsDelivery, varsMutex>>

\* ChannelManager.add_channel_command: the instruction is sent and the state is set.
LockAddChannelCommand ==
    /\ k_state' = ADDING_CHANNEL
    /\ k_last' = Call("manager", "add_channel_command", k_state, "Adding a channel")
    /\ UNCHANGED <<k_added, k_queued, k_w>>
    /\ FrameManager
    /\ FrameLock

\* ChannelManager.reset_state_command of a user who is no administrator of the bot.
LockResetStateCommand ==
    /\ k_state' = IF k_state = SEND_LOCKED THEN k_state ELSE IDLE
    /\ k_last' = Call("manager", "reset_state_command", k_state, "-")
    /\ UNCHANGED <<k_added, k_queued, k_w>>
    /\ FrameManager
    /\ FrameLock

\* ChannelManager.create_post_menu, from a button of a menu.
LockCreatePostMenu ==
    /\ k_state' = CREATE_SINGLE_POST
    /\ k_last' = Call("manager", "create_post_menu", k_state, "menu")
    /\ UNCHANGED <<k_added, k_queued, k_w>>
    /\ FrameManager
    /\ FrameLock

\* ChannelManager.message_handler_dispatcher for a message of the user: only
\* CREATE_SINGLE_POST queues it (the other states wait for other input); in
\* SEND_LOCKED no branch is taken.
LockMessage ==
    /\ k_state \in {IDLE, CREATE_SINGLE_POST, SEND_LOCKED}
    /\ IF k_state = CREATE_SINGLE_POST
       THEN /\ k_added < MaxLockMsgs
            /\ k_added' = k_added + 1
            /\ k_last' = Call("manager", "queue_message_message_handler", k_state,
                              "Message was added")
       ELSE /\ UNCHANGED k_added
            /\ k_last' = Call("manager", "message_handler_dispatcher", k_state, "-")
    /\ UNCHANGED <<k_state, k_queued, k_w>>
    /\ FrameManager
    /\ FrameLock

\* The Send button: send_post_callback_query is handed to a worker.
LockSendPost ==
    /\ k_w = "idle"
    /\ k_w' = "start"
    /\ k_last' = Call("manager", "send_post_callback_query", k_state, "-")
    /\ UNCHANGED <<k_state, k_added, k_queued>>
    /\ FrameManager
    /\ FrameLock

\* send_post_callback_query: the state is set to SEND_LOCKED.
LockSendLock ==
    /\ k_w = "start"
    /\ k_w' = "locked"
    /\ k_state' = SEND_LOCKED
    /\ UNCHANGED <<k_added, k_queued, k_last>>
    /\ FrameManager
    /\ FrameLock

\* send_post_callback_query: the added messages are moved to queued_messages, the
\* channel is saved and the state is set to CREATE_SINGLE_POST.
LockSendMove ==
    /\ k_w = "locked"
    /\ k_w' = "sending"
    /\ k_queued' = k_added
    /\ k_added' = 0
    /\ k_state' = CREATE_SINGLE_POST
    /\ UNCHANGED k_last
    /\ FrameManager
    /\ FrameLock

\* send_post_callback_query: the batch was sent and its slot is deleted.
LockSendFinish ==
    /\ k_w = "sending"
    /\ k_w' = "idle"
    /\ k_queued' = 0
    /\ UNCHANGED <<k_state, k_added, k_last>>
    /\ FrameManager
    /\ FrameLock

\* The handlers of Channel that are decorated with locked.
LockedHandlers == {"add_channel_start", "create_post_callback_query", "send_post_callback_query"}

\* locked: the call is answered with the notice when the stored state of the user
\* is SEND_LOCKED, otherwise the handler (run_async) is handed to a worker.
Locked(handler) ==
    /\ IF lk_state = SEND_LOCKED
       THEN /\ k_last' = Call("channel", handler, lk_state, InProgress)
            /\ UNCHANGED lk_run
       ELSE /\ k_last' = Call("channel", handler, lk_state, "-")
            /\ lk_run' = lk_run \cup {handler}
    /\ UNCHANGED <<lk_state, lk_queue, lk_send>>
    /\ FrameLegacy
    /\ FrameLock

\* A command or a button of the user calls a handler of Channel.
LegacyCall(handler) ==
    /\ handler \in LockedHandlers
    /\ Locked(handler)

\* Channel.message_handler for a message of the user: add_message in
\* CREATE_SINGLE_POST, no branch in IDLE and SEND_LOCKED.
LegacyMessage ==
    /\ lk_state \in {IDLE, CREATE_SINGLE_POST, SEND_LOCKED}
    /\ IF lk_state = CREATE_SINGLE_POST
       THEN Locked("add_message")
       ELSE /\ k_last' = Call("channel", "message_handler", lk_state, "-")
            /\ UNCHANGED <<lk_state, lk_queue, lk_run, lk_send>>
            /\ FrameLegacy
            /\ FrameLock

\* A worker runs the body of a handler that passed locked.  send_post_callback_query
\* sets CREATE_SINGLE_POST first and reads the queue.
LegacyRun(handler) ==
    /\ handler \in lk_run
    /\ lk_run' = lk_run \ {handler}
    /\ handler = "add_message" => lk_queue < MaxLockMsgs
    /\ handler = "send_post_callback_query" => lk_send = "idle"
    /\ lk_queue' = IF handler = "add_message" THEN lk_queue + 1 ELSE lk_queue
    /\ lk_state' =
          CASE handler = "add_channel_start" -> ADDING_CHANNEL
            [] handler = "create_post_callback_query" -> CREATE_SINGLE_POST
            [] handler = "send_post_callback_query" -> CREATE_SINGLE_POST
            [] OTHER -> lk_state
    /\ lk_send' = IF handler = "send_post_callback_query" THEN "read" ELSE lk_send
    /\ UNCHANGED k_last
    /\ FrameLegacy
    /\ FrameLock

\* Channel.send_post_callback_query: set_user_state(user, SEND_LOCKED) before the loop.
LegacySendLock ==
    /\ lk_send = "read"
    /\ lk_send' = "locked"
    /\ lk_state' = SEND_LOCKED
    /\ UNCHANGED <<lk_queue, lk_run, k_last>>
    /\ FrameLegacy
    /\ FrameLock

\* Channel.send_post_callback_query: the loop is over, the state is set to
\* CREATE_SINGLE_POST and the menu is shown again.
LegacySendDone ==
    /\ lk_send = "locked"
    /\ lk_send' = "idle"
    /\ lk_state' = CREATE_SINGLE_POST
    /\ lk_queue' = 0
    /\ UNCHANGED <<lk_run, k_last>>
    /\ FrameLegacy
    /\ FrameLock

InitLock ==
    /\ k_state = IDLE
    /\ k_added = 0
    /\ k_queued = 0
    /\ k_w = "idle"
    /\ lk_state = IDLE
    /\ lk_queue = 0
    /\ lk_run = {}
    /\ lk_send = "idle"
    /\ k_last = NoCall
    /\ IdleState
    /\ IdleReact
    /\ IdleSchedule
    /\ IdlePost
    /\ IdleRegister
    /\ IdleButton
    /\ IdleMenu
    /\ IdleQueue
    /\ IdleBoot
    /\ IdleDebounce
    /\ IdleSave
    /\ IdleCurrent
    /\ IdleReset
    /\ IdleSettings
    /\ IdleImport
    /\ IdleMigration
    /\ IdleRetry
    /\ IdleSearch
    /\ IdleWizard
    /\ IdleDelivery
    /\ IdleMutex

NextLock ==
    \/ LockAddChannelCommand
    \/ LockResetStateCommand
    \/ LockCreatePostMenu
    \/ LockMessage
    \/ LockSendPost
    \/ LockSendLock
    \/ LockSendMove
    \/ LockSendFinish
    \/ \E handler \in LockedHandlers : LegacyCall(handler)
    \/ LegacyMessage
    \/ \E handler \in LockedHandlers \cup {"add_message"} : LegacyRun(handler)
    \/ LegacySendLock
    \/ LegacySendDone

SpecLock == InitLock /\ [][NextLock]_vars

\* C11: a message or a menu action of a user whose state is SEND_LOCKED is
\* answered with the 'sending in progress' notice and changes neither the queues
\* of the channel nor the state of the user.
C11_LockedRejects ==
    [][(k_last'.tick # k_last.tick /\ k_last'.locked) =>
          /\ k_last'.reply = InProgress
          /\ UNCHANGED <<k_state, k_added, k_queued, lk_state, lk_queue>>]_vars

\* /addchannel was handled while send_post_callback_query held the lock: the
\* state of the user is ADDING_CHANNEL and no notice was sent.
C11_Witness ==
    /\ k_last.locked /\ k_last.handler = "add_channel_command"
    /\ k_last.reply # InProgress
    /\ k_w = "locked"
    /\ k_state = ADDING_CHANNEL

NextSend ==
    \/ \E file \in Files : QueueMessage(file, TRUE, <<>>)
    \/ PostMenuJob
    \/ \E preview \in BOOLEAN : SendPostDispatch(preview)
    \/ SendPostLock
    \/ SendPostMove
    \/ \E outcome \in {"ok", "timeout", "error"} : SendPostOne(outcome)
    \/ SendPostFinish
    \/ PostRestart

SpecSend == InitPost /\ [][NextSend]_vars

\* Sending while posts of others arrive from the channel.
NextPreview ==
    \/ NextSend
    \/ ChannelPost(PostedFile)

SpecPreview == InitPost /\ [][NextPreview]_vars

\* The sequence without the elements that are not in the set.
Restrict(list, set) == SelectSeq(list, LAMBDA x : x \in set)

\* C13: a preview is sent to the chat of the user who asked for it, and no step
\* of a preview changes the stored sent_messages or queued_messages or takes a
\* message out of the stored added_messages or reorders them.
C13_PreviewFrame ==
    [][/\ (p_w'.preview /\ p_w'.pc = "loop" /\ p_w'.rest # <<>>) => p_w'.send_to = "user"
       /\ (p_w.preview /\ p_w' # p_w /\ p_db' # p_db) =>
             /\ p_db'.sent = p_db.sent
             /\ p_db'.queued = p_db.queued
             /\ Restrict(p_db'.added, SeqSet(p_db.added)) = p_db.added]_vars

\* A preview of one message is about to be sent to the channel.
C13_Witness ==
    /\ p_w.preview /\ p_w.pc = "loop"
    /\ p_w.rest = <<1>>
    /\ p_w.send_to = "channel"
    /\ p_db.sent = <<PostedFile>>

(***************************************************************************)
(* The current menu message of a chat.  commands/channelmanager.py         *)
(***************************************************************************)
MaxMenuMessages == 3
MaxRenderers == 2
Renderers == 1..MaxRenderers
NoMessage == 0

\* TgMessage.objects(chat=..., is_current_message=True).first()
FirstCurrent(cur) ==
    IF cur = {} THEN NoMessage ELSE CHOOSE m \in cur : \A n \in cur : m <= n

\* A menu handler (run_async) starts on a worker: a button or the refresh job draws
\* a menu, in place or as a new message.
MenuRender(w, create) ==
    /\ m_w[w].pc = "idle"
    /\ m_w' = [m_w EXCEPT ![w] = [NoRender EXCEPT !.pc = "start", !.create = create]]
    /\ UNCHANGED <<m_cur, m_next>>
    /\ FrameMenu

\* reset_state_command: every current message of the chat is unmarked, then
\* list_channels_menu draws its menu as a new message.
MenuReset(w) ==
    /\ m_w[w].pc = "idle"
    /\ m_cur' = {}
    /\ m_w' = [m_w EXCEPT ![w] = [NoRender EXCEPT !.pc = "start", !.create = TRUE]]
    /\ UNCHANGED m_next
    /\ FrameMenu

\* create_or_update_button_message: the current message is looked up.
MenuLookup(w) ==
    /\ m_w[w].pc = "start"
    /\ m_w' = [m_w EXCEPT ![w].pc = "found", ![w].current = FirstCurrent(m_cur)]
    /\ UNCHANGED <<m_cur, m_next>>
    /\ FrameMenu

\* create_or_update_button_message: a new message is sent (and the old one
\* deleted from the chat), or the current message is edited and stays the same
\* message.
MenuSend(w) ==
    LET fresh == m_w[w].current = NoMessage \/ m_w[w].create
    IN  /\ m_w[w].pc = "found"
        /\ fresh => m_next < MaxMenuMessages
        /\ m_next' = IF fresh THEN m_next + 1 ELSE m_next
        /\ m_w' = [m_w EXCEPT ![w].pc = "sent",
                              ![w].new = IF fresh THEN m_next + 1 ELSE m_w[w].current]
        /\ UNCHANGED m_cur
        /\ FrameMenu

\* create_or_update_button_message: the message found before is unmarked and
\* saved, the message just sent or edited is marked and saved.
MenuMark(w) ==
    /\ m_w[w].pc = "sent"
    /\ m_cur' = (m_cur \ {m_w[w].current}) \cup {m_w[w].new}
    /\ m_w' = [m_w EXCEPT ![w] = NoRender]
    /\ UNCHANGED m_next
    /\ FrameMenu

InitMenu ==
    /\ m_cur = {}
    /\ m_next = 0
    /\ m_w = [w \in Renderers |-> NoRender]
    /\ IdleState
    /\ IdleReact
    /\ IdleSchedule
    /\ IdlePost
    /\ IdleRegister
    /\ IdleButton
    /\ IdleLock
    /\ IdleQueue
    /\ IdleBoot
    /\ IdleDebounce
    /\ IdleSave
    /\ IdleCurrent
    /\ IdleReset
    /\ IdleSettings
    /\ IdleImport
    /\ IdleMigration
    /\ IdleRetry
    /\ IdleSearch
    /\ IdleWizard
    /\ IdleDelivery
    /\ IdleMutex

NextMenu ==
    \/ \E w \in Renderers, create \in BOOLEAN : MenuRender(w, create)
    \/ \E w \in Renderers : MenuReset(w)
    \/ \E w \in Renderers : MenuLookup(w)
    \/ \E w \in Renderers : MenuSend(w)
    \/ \E w \in Renderers : MenuMark(w)

SpecMenu == InitMenu /\ [][NextMenu]_vars

\* C14: at most one stored message of the chat is marked as the current message.
C14_OneCurrentMessage == Cardinality(m_cur) <= 1

\* Two renders ran at the same time and both their messages are marked.
C14_Witness ==
    /\ Cardinality(m_cur) = 2
    /\ \A w \in Renderers : m_w[w].pc = "idle"

(***************************************************************************)
(* The job queue around the scheduling wizard.                             *)
(* commands/channelmanager.py, utils/magic_buttons.py                      *)
(***************************************************************************)
MaxOtherJobs == 1
JobsDelay == 1
JobsBatch == 2
FrameJobs == UNCHANGED <<varsState, varsReact, varsPost, varsRegister, varsButton, varsLock, varsMenu, varsBoot, varsDebounce, varsSave, varsCurrent, varsReset, varsSettings, varsImport, varsMigration, varsRetry, varsSearch, varsWizard, varsDelivery, varsMutex>>
FrameCurrent == UNCHANGED <<varsState, varsReact, varsSchedule, varsPost, varsRegister, varsButton, varsLock, varsMenu, varsQueue, varsBoot, varsDebounce, varsSave, varsReset, varsSettings, varsImport, varsMigration, varsRetry, varsSearch, varsWizard, varsDelivery, varsMutex>>
FrameReset == UNCHANGED <<varsState, varsReact, varsSchedule, varsPost, varsRegister, varsButton, varsLock, varsMenu, varsQueue, varsBoot, varsDebounce, varsSave, varsCurrent, varsSettings, varsImport, varsMigration, varsRetry, varsSearch, varsWizard, varsDelivery, varsMutex>>
FrameSettings == UNCHANGED <<varsState, varsReact, varsSchedule, varsPost, varsRegister, varsButton, varsLock, varsMenu, varsQueue, varsBoot, varsDebounce, varsSave, varsCurrent, varsReset, varsImport, varsMigration, varsRetry, varsSearch, varsWizard, varsDelivery, varsMutex>>
FrameImport == UNCHANGED <<varsState, varsReact, varsSchedule, varsPost, varsRegister, varsButton, varsLock, varsMenu, varsQueue, varsBoot, varsDebounce, varsSave, varsCurrent, varsReset, varsSettings, varsMigration, varsRetry, varsSearch, varsWizard, varsDelivery, varsMutex>>
FrameMigration == UNCHANGED <<varsState, varsReact, varsSchedule, varsPost, varsRegister, varsButton, varsLock, varsMenu, varsQueue, varsBoot, varsDebounce, varsSave, varsCurrent, varsReset, varsSettings, varsImport, varsRetry, varsSearch, varsWizard, varsDelivery, varsMutex>>
FrameRetry == UNCHANGED <<varsState, varsReact, varsSchedule, varsPost, varsRegister, varsButton, varsLock, varsMenu, varsQueue, varsBoot, varsDebounce, varsSave, varsCurrent, varsReset, varsSettings, varsImport, varsMigration, varsSearch, varsWizard, varsDelivery, varsMutex>>
FrameSearch == UNCHANGED <<varsState, varsReact, varsSchedule, varsPost, varsRegister, varsButton, varsLock, varsMenu, varsQueue, varsBoot, varsDebounce, varsSave, varsCurrent, varsReset, varsSettings, varsImport, varsMigration, varsRetry, varsWizard, varsDelivery, varsMutex>>
FrameWizard == UNCHANGED <<varsState, varsReact, varsSchedule, varsPost, varsRegister, varsButton, varsLock, varsMenu, varsQueue, varsBoot, varsDebounce, varsSave, varsCurrent, varsReset, varsSettings, varsImport, varsMigration, varsRetry, varsSearch, varsDelivery, varsMutex>>
FrameDelivery == UNCHANGED <<varsState, varsReact, varsSchedule, varsPost, varsRegister, varsButton, varsLock, varsMenu, varsQueue, varsBoot, varsDebounce, varsSave, varsCurrent, varsReset, varsSettings, varsImport, varsMigration, varsRetry, varsSearch, varsWizard, varsMutex>>
FrameMutex == UNCHANGED <<varsState, varsReact, varsSchedule, varsPost, varsRegister, varsButton, varsLock, varsMenu, varsQueue, varsBoot, varsDebounce, varsSave, varsCurrent, varsReset, varsSettings, varsImport, varsMigration, varsRetry, varsSearch, varsWizard, varsDelivery>>

\* queue_message_message_handler in the post menu: a message the channel has not
\* seen yet joins added_messages and a menu refresh job is registered without a
\* context.
ScQueueMessage(msg) ==
    /\ sc_state = CREATE_SINGLE_POST
    /\ msg \in Msgs
    /\ msg \notin SeqSet(sc_added) \cup SeqSet(ChainValues(sc_scheduled))
    /\ sc_added' = Append(sc_added, msg)
    /\ jq_plain' = jq_plain \cup {"refresh"}
    /\ UNCHANGED <<sc_scheduled, sc_jobs, sc_state, sc_data, sc_change, sc_shown, sc_last,
                   jq_other>>
    /\ FrameJobs

\* The menu refresh job fires: create_post_menu(recreate_message=True).
RefreshJobRun ==
    /\ "refresh" \in jq_plain
    /\ jq_plain' = jq_plain \ {"refresh"}
    /\ sc_state' = CREATE_SINGLE_POST
    /\ sc_change' = FALSE
    /\ UNCHANGED <<sc_added, sc_scheduled, sc_jobs, sc_data, sc_shown, sc_last, jq_other>>
    /\ FrameJobs

\* Some other handler registers a job without a context on the shared queue: the
\* 24 hour timeout of a MagicButton, or the menu refresh of another user.
ForeignJobRegister ==
    /\ "foreign" \notin jq_plain
    /\ jq_plain' = jq_plain \cup {"foreign"}
    /\ UNCHANGED <<varsSchedule, jq_other>>
    /\ FrameJobs

ForeignJobRun ==
    /\ "foreign" \in jq_plain
    /\ jq_plain' = jq_plain \ {"foreign"}
    /\ UNCHANGED <<varsSchedule, jq_other>>
    /\ FrameJobs

\* load_scheduled registers a delivery job for a batch of another channel.
OtherChannelLoad ==
    /\ jq_other < MaxOtherJobs
    /\ jq_other' = jq_other + 1
    /\ UNCHANGED <<varsSchedule, jq_plain>>
    /\ FrameJobs

\* The messages arrive in the order of their numbers.
NextMessage ==
    Cardinality(SeqSet(sc_added) \cup SeqSet(ChainValues(sc_scheduled))) + 1

\* The post menu of a channel with nothing queued and nothing scheduled.
InitJobs ==
    /\ sc_added = <<>>
    /\ sc_scheduled = <<>>
    /\ sc_jobs = <<>>
    /\ sc_state = CREATE_SINGLE_POST
    /\ sc_data = NoData
    /\ sc_change = FALSE
    /\ sc_shown = {}
    /\ sc_last = NoConfirm
    /\ IdleState
    /\ IdleReact
    /\ IdlePost
    /\ IdleRegister
    /\ IdleButton
    /\ IdleLock
    /\ IdleMenu
    /\ IdleQueue
    /\ IdleBoot
    /\ IdleDebounce
    /\ IdleSave
    /\ IdleCurrent
    /\ IdleReset
    /\ IdleSettings
    /\ IdleImport
    /\ IdleMigration
    /\ IdleRetry
    /\ IdleSearch
    /\ IdleWizard
    /\ IdleDelivery
    /\ IdleMutex

\* The wizard with one delay and one batch size, next to the handlers and jobs
\* that share its job queue.
NextJobs ==
    \/ ScheduleWhenMenu
    \/ \E kind \in {"time", "extend", "append"}, t \in Times : ScheduleDelayMenu(kind, t)
    \/ \E now \in Times : ScheduleBatchSizeMenu(JobsDelay, now)
    \/ \E now \in Times : ScheduleConfirmationMenu(JobsBatch, now)
    \/ \E now \in Times : ScheduleCallbackQuery(FALSE, now)
    \/ ScQueueMessage(NextMessage)
    \/ RefreshJobRun
    \/ ForeignJobRegister
    \/ ForeignJobRun
    \/ OtherChannelLoad

SpecJobs == InitJobs /\ [][NextJobs]_vars

\* C15: after a confirmed schedule (normal, append or extend) every key of the
\* channel's scheduled_messages has exactly one pending delivery job, the keys of
\* batches scheduled before the confirmation included.
C15_OneJobPerKey ==
    (sc_last.op = "confirm" /\ ~sc_last.failed /\ sc_last.mode # "reschedule") =>
        \A k \in DictKeys(sc_scheduled) : k \in DOMAIN sc_jobs /\ sc_jobs[k] = 1

C15_Witness ==
    /\ sc_last.op = "confirm" /\ ~sc_last.failed /\ sc_last.mode = "normal"
    /\ sc_data.append
    /\ sc_last.msgs = <<2>>
    /\ DictKeys(sc_scheduled) = {Str(9), Str(10)}
    /\ sc_jobs[Str(9)] = 2
    /\ sc_jobs[Str(10)] = 1

\* C16: when a schedule is confirmed with Extend or Reschedule, every delivery job
\* registered before for that channel is cancelled before the new jobs are
\* registered, so that afterwards the channel's pending jobs are the new ones only
\* (none when the confirmation failed), and the delivery jobs of other channels
\* stay pending.
C16_CancelFirst ==
    [][/\ (sc_last'.op = "confirm" /\ sc_last'.mode \in {"extend", "reschedule"}) =>
             sc_jobs' = IF sc_last'.failed THEN <<>>
                        ELSE LoadScheduled(<<>>, sc_scheduled')
       /\ (sc_jobs' # sc_jobs) => (jq_other' = jq_other)]_vars

C16_Witness ==
    /\ sc_last.op = "confirm" /\ sc_last.mode = "extend" /\ sc_last.failed
    /\ sc_last.n = JobsBatch
    /\ jq_plain = {"foreign"}
    /\ jq_other = 1
    /\ sc_added = <<2>>
    /\ DictKeys(sc_scheduled) = {Str(9)}
    /\ sc_jobs = LoadScheduled(<<>>, sc_scheduled)

(***************************************************************************)
(* Start of the process: reloading the delivery jobs.                      *)
(* bot.py main, commands/channelmanager.py start_hook, load_scheduled,     *)
(* send_scheduled_message                                                  *)
(***************************************************************************)
MaxBootChannels == 2
MaxBootKeys == 2
BootChannels == 1..MaxBootChannels
BootKeys == 1..MaxBootKeys

\* The keys of a scheduled_messages dict in the order its items() yields them.
RECURSIVE Items(_)
Items(keys) ==
    IF keys = {} THEN <<>>
    ELSE LET k == CHOOSE x \in keys : \A y \in keys : x <= y
         IN  <<k>> \o Items(keys \ {k})

\* The outer loop of load_scheduled reaches channel c: the query set yields the
\* document as stored and the inner loop opens an iterator over its
\* scheduled_messages, which remembers the size of the dict.
EnterChannel(c) ==
    IF c > MaxBootChannels
    THEN /\ bt_load' = [NoLoad EXCEPT !.pc = "done"]
         /\ UNCHANGED bt_mem
    ELSE /\ bt_mem' = [bt_mem EXCEPT ![c] = bt_db[c]]
         /\ bt_load' = [pc |-> "iter", ch |-> c, todo |-> Items(bt_db[c]),
                        used |-> Cardinality(bt_db[c])]

\* main calls the bot started hook after the updater, and with it the thread of
\* the job queue, was started; start_hook calls load_scheduled().
BootStartHook ==
    /\ bt_load.pc = "start"
    /\ EnterChannel(1)
    /\ UNCHANGED <<bt_init, bt_db, bt_due, bt_jobs, bt_out>>
    /\ FrameBoot

\* One step of the iterator over channel.scheduled_messages.items(): it raises
\* RuntimeError when the size of the dict changed since it was opened, otherwise
\* it yields the next key, for which a job is registered, or ends the inner loop.
LoadStep ==
    /\ bt_load.pc = "iter"
    /\ IF Cardinality(bt_mem[bt_load.ch]) # bt_load.used
       THEN /\ bt_load' = [bt_load EXCEPT !.pc = "crashed"]
            /\ UNCHANGED <<bt_mem, bt_jobs>>
       ELSE IF bt_load.todo # <<>>
       THEN /\ bt_jobs' = bt_jobs \cup {<<bt_load.ch, Head(bt_load.todo)>>}
            /\ bt_load' = [bt_load EXCEPT !.todo = Tail(@)]
            /\ UNCHANGED bt_mem
       ELSE /\ EnterChannel(bt_load.ch + 1)
            /\ UNCHANGED bt_jobs
    /\ UNCHANGED <<bt_init, bt_db, bt_due, bt_out>>
    /\ FrameBoot

\* send_scheduled_message on the thread of the job queue, for a job whose time has
\* come: the batch is taken from the channel object of the job's context, which
\* is the object load_scheduled iterates over; a batch that is there is deleted
\* from the dict, saved and sent, a missing one is reported to the owner.
SendScheduledMessage(c, k) ==
    /\ <<c, k>> \in bt_jobs
    /\ k \in bt_due
    /\ bt_jobs' = bt_jobs \ {<<c, k>>}
    /\ bt_out' = bt_out \cup {<<c, k>>}
    /\ bt_mem' = [bt_mem EXCEPT ![c] = @ \ {k}]
    /\ bt_db' = [bt_db EXCEPT ![c] = @ \ {k}]
    /\ UNCHANGED <<bt_init, bt_due, bt_load>>
    /\ FrameBoot

\* Time passes: the next timestamp is reached.
Tick ==
    /\ bt_due # BootKeys
    /\ bt_due' = bt_due \cup {CHOOSE k \in BootKeys \ bt_due :
                                 \A j \in BootKeys \ bt_due : k <= j}
    /\ UNCHANGED <<bt_init, bt_db, bt_mem, bt_load, bt_jobs, bt_out>>
    /\ FrameBoot

\* The process was just started: any schedule is stored, and the timestamps up to
\* some point passed while it was down.
InitBoot ==
    /\ bt_init \in [BootChannels -> SUBSET BootKeys]
    /\ bt_db = bt_init
    /\ bt_mem = [c \in BootChannels |-> {}]
    /\ bt_due \in {1..j : j \in 0..MaxBootKeys}
    /\ bt_load = [NoLoad EXCEPT !.pc = "start"]
    /\ bt_jobs = {}
    /\ bt_out = {}
    /\ IdleState
    /\ IdleReact
    /\ IdleSchedule
    /\ IdlePost
    /\ IdleRegister
    /\ IdleButton
    /\ IdleLock
    /\ IdleMenu
    /\ IdleQueue
    /\ IdleDebounce
    /\ IdleSave
    /\ IdleCurrent
    /\ IdleReset
    /\ IdleSettings
    /\ IdleImport
    /\ IdleMigration
    /\ IdleRetry
    /\ IdleSearch
    /\ IdleWizard
    /\ IdleDelivery
    /\ IdleMutex

NextBoot ==
    \/ BootStartHook
    \/ LoadStep
    \/ \E c \in BootChannels, k \in BootKeys : SendScheduledMessage(c, k)
    \/ Tick

SpecBoot == InitBoot /\ [][NextBoot]_vars

\* The main thread and the thread of the job queue keep running and time passes.
SpecBootFair ==
    /\ SpecBoot
    /\ WF_vars(BootStartHook)
    /\ WF_vars(LoadStep)
    /\ WF_vars(\E c \in BootChannels, k \in BootKeys : SendScheduledMessage(c, k))
    /\ WF_vars(Tick)

\* C17: after a restart every batch stored in some channel's scheduled_messages
\* is eventually delivered or reported to its owner, also when its timestamp
\* passed while the process was down.
C17_EveryBatchHandled ==
    \A c \in BootChannels, k \in BootKeys :
        (k \in bt_init[c]) ~> (<<c, k>> \in bt_out)

C17_Witness ==
    /\ bt_load.pc = "crashed"
    /\ bt_init = [c \in BootChannels |-> BootKeys]
    /\ bt_out = {<<1, 1>>}
    /\ bt_jobs = {}
    /\ bt_db = [c \in BootChannels |-> IF c = 1 THEN {2} ELSE BootKeys]
    /\ bt_due = BootKeys

(***************************************************************************)
(* Debouncing the menu refresh.  commands/channel.py JobsQueue, add_message *)
(***************************************************************************)
MaxAdds == 3
MaxAdders == 2
Adders == 1..MaxAdders

\* add_message on a worker thread, up to job_queue.run_once: the message is queued
\* and the refresh job is registered, due one second later.
AddMessage(w) ==
    /\ d_w[w].pc = "idle"
    /\ d_n < MaxAdds
    /\ d_n' = d_n + 1
    /\ d_jobs' = Append(d_jobs, "pending")
    /\ d_since' = 0
    /\ d_w' = [d_w EXCEPT ![w] = [pc |-> "append", job |-> d_n + 1, todo |-> <<>>]]
    /\ UNCHANGED d_all
    /\ FrameDebounce

\* JobsQueue.__init__: JobsQueue.all_jobs.append(self).
JobsQueueInit(w) ==
    /\ d_w[w].pc = "append"
    /\ d_all' = Append(d_all, d_w[w].job)
    /\ d_w' = [d_w EXCEPT ![w].pc = "select"]
    /\ UNCHANGED <<d_jobs, d_n, d_since>>
    /\ FrameDebounce

\* replace(): the list of the other entries of the same user and type.
ReplaceSelect(w) ==
    /\ d_w[w].pc = "select"
    /\ LET jobs == SelectSeq(d_all, LAMBDA j : j # d_w[w].job)
       IN  d_w' = [d_w EXCEPT ![w] = IF jobs = <<>> THEN NoAdder
                                     ELSE [@ EXCEPT !.pc = "replace", !.todo = jobs]]
    /\ UNCHANGED <<d_all, d_jobs, d_n, d_since>>
    /\ FrameDebounce

\* replace(): one round of the loop.  all_jobs.remove raises ValueError for an
\* entry another thread removed already, which ends the handler; schedule_removal
\* stops a job that has not fired yet.
ReplaceOne(w) ==
    /\ d_w[w].pc = "replace"
    /\ LET job == Head(d_w[w].todo)
       IN  IF \A i \in 1..Len(d_all) : d_all[i] # job
           THEN /\ d_w' = [d_w EXCEPT ![w] = NoAdder]
                /\ UNCHANGED <<d_all, d_jobs>>
           ELSE /\ d_all' = SelectSeq(d_all, LAMBDA j : j # job)
                /\ d_jobs' = [d_jobs EXCEPT ![job] = IF @ = "pending" THEN "removed" ELSE @]
                /\ d_w' = [d_w EXCEPT ![w] = IF Len(@.todo) = 1 THEN NoAdder
                                              ELSE [@ EXCEPT !.todo = Tail(@)]]
    /\ UNCHANGED <<d_n, d_since>>
    /\ FrameDebounce

\* A refresh job that was not removed fires.  It is due one second after it was
\* registered: the model lets it fire when no handler is inside add_message.
RefreshFires(job) ==
    /\ job \in 1..Len(d_jobs)
    /\ d_jobs[job] = "pending"
    /\ \A w \in Adders : d_w[w].pc = "idle"
    /\ d_jobs' = [d_jobs EXCEPT ![job] = "fired"]
    /\ d_since' = d_since + 1
    /\ UNCHANGED <<d_w, d_all, d_n>>
    /\ FrameDebounce

InitDebounce ==
    /\ d_w = [w \in Adders |-> NoAdder]
    /\ d_all = <<>>
    /\ d_jobs = <<>>
    /\ d_n = 0
    /\ d_since = 0
    /\ IdleState
    /\ IdleReact
    /\ IdleSchedule
    /\ IdlePost
    /\ IdleRegister
    /\ IdleButton
    /\ IdleLock
    /\ IdleMenu
    /\ IdleQueue
    /\ IdleBoot
    /\ IdleSave
    /\ IdleCurrent
    /\ IdleReset
    /\ IdleSettings
    /\ IdleImport
    /\ IdleMigration
    /\ IdleRetry
    /\ IdleSearch
    /\ IdleWizard
    /\ IdleDelivery
    /\ IdleMutex

NextDebounce ==
    \/ \E w \in Adders : AddMessage(w)
    \/ \E w \in Adders : JobsQueueInit(w)
    \/ \E w \in Adders : ReplaceSelect(w)
    \/ \E w \in Adders : ReplaceOne(w)
    \/ \E job \in 1..MaxAdds : RefreshFires(job)

SpecDebounce == InitDebounce /\ [][NextDebounce]_vars

PendingJobs == {j \in 1..Len(d_jobs) : d_jobs[j] = "pending"}

\* C18: once the handlers of the additions have finished, every refresh job but
\* the newest was cancelled or has fired before, so that exactly one refresh is
\* pending or has fired since the last addition, whatever the interleaving of the
\* workers was.
C18_OneRefresh ==
    (d_n > 0 /\ \A w \in Adders : d_w[w].pc = "idle") =>
        Cardinality(PendingJobs) + d_since = 1

C18_Witness ==
    /\ d_n = 2
    /\ \A w \in Adders : d_w[w].pc = "idle"
    /\ d_jobs = <<"removed", "removed">>
    /\ d_since = 0
    /\ d_all = <<>>

(***************************************************************************)
(* Saving a channel and the similarity index.                              *)
(* models/channelsettings.py, models/tg_message.py                         *)
(***************************************************************************)
MaxPublished == 3
MaxCaptions == 2
Published == 1..MaxPublished
Services == {"up", "down", "no index"}

\* TgMessage.add_to_image_match(self, chat_id=None, bot=None) called with the
\* keyword kw while the index service is in the given state: what the call
\* returns, or the exception it raises.
AddToImageMatch(kw, service) ==
    IF kw \notin {"chat_id", "bot"} THEN "TypeError"
    ELSE CASE service = "up" -> "added"
           [] service = "down" -> "return"
           [] OTHER -> "return"

Exceptions == {"TypeError", "NameError", "OperationFailure"}

\* A try block whose outcome is r, without an except clause.
NoExcept(r, handled) == r

\* A try block whose outcome is r, with an except Exception clause whose outcome
\* is handled.
ExceptException(r, handled) == IF r \in Exceptions THEN handled ELSE r

\* add_messages_to_elasitcsearch: the messages are registered one by one with the
\* keyword metadata; the first exception ends the loop and is logged.
AddMessagesToElasticsearch(messages, service) ==
    IF messages = <<>> THEN "nothing"
    ELSE ExceptException(AddToImageMatch("metadata", service), "logged")

\* The messages before_save takes for newly sent: the stored list holds object
\* ids, which a message_id never equals.
NewlySent(before, sent) == SelectSeq(sent, LAMBDA item : TRUE)

\* before_save for the changed fields, the outcome of find_one and the state of
\* the index service.  An exception in the try block leads to the except branch,
\* which registers the retry job with newly_sent as context; when find_one raised,
\* that name is unbound and the NameError is logged.
BeforeSave(changed, find, before, sent, service) ==
    LET newly_sent == NewlySent(before, sent)
        body == IF "sent_messages" \notin changed THEN "skipped"
                ELSE IF find = "error" THEN "OperationFailure"
                ELSE AddMessagesToElasticsearch(newly_sent, service)
        handled == IF find = "error" THEN "logged" ELSE "retry"
        leaving == ExceptException(body, handled)
    IN  [result |-> body, raised |-> leaving \in Exceptions,
         retry |-> IF leaving = "retry" THEN {newly_sent} ELSE {}]

\* ChannelSettings.save(): before_save, then Document.save, under save_lock.
ChannelSettingsSave(changed, find, service) ==
    LET out == BeforeSave(changed, find, sv_db, sv_obj', service)
    IN  /\ sv_retry' = sv_retry \cup out.retry
        /\ sv_db' = IF out.raised THEN sv_db ELSE sv_obj'
        /\ sv_last' = [op |-> "save", grew |-> "sent_messages" \in changed,
                       find |-> find, service |-> service, result |-> out.result,
                       persisted |-> ~out.raised, raised |-> out.raised,
                       retry |-> out.retry # {}]

\* The end of a publishing handler: the message that was sent is appended to
\* sent_messages and the channel is saved.
Publish(m, find, service) ==
    /\ m \notin SeqSet(sv_obj)
    /\ sv_obj' = Append(sv_obj, m)
    /\ UNCHANGED sv_caption
    /\ ChannelSettingsSave({"sent_messages"}, find, service)
    /\ FrameSave

\* change_caption_message_handler: a save that leaves sent_messages alone.
ChangeCaption(c, service) ==
    /\ c # sv_caption
    /\ sv_caption' = c
    /\ UNCHANGED sv_obj
    /\ ChannelSettingsSave({"caption"}, "ok", service)
    /\ FrameSave

InitSave ==
    /\ sv_db = <<>>
    /\ sv_obj = <<>>
    /\ sv_caption = 0
    /\ sv_retry = {}
    /\ sv_last = NoSave
    /\ IdleState
    /\ IdleReact
    /\ IdleSchedule
    /\ IdlePost
    /\ IdleRegister
    /\ IdleButton
    /\ IdleLock
    /\ IdleMenu
    /\ IdleQueue
    /\ IdleBoot
    /\ IdleDebounce
    /\ IdleCurrent
    /\ IdleReset
    /\ IdleSettings
    /\ IdleImport
    /\ IdleMigration
    /\ IdleRetry
    /\ IdleSearch
    /\ IdleWizard
    /\ IdleDelivery
    /\ IdleMutex

NextSave ==
    \/ \E m \in Published, find \in {"ok", "error"}, service \in Services :
          Publish(m, find, service)
    \/ \E c \in 0..MaxCaptions, service \in Services : ChangeCaption(c, service)

SpecSave == InitSave /\ [][NextSave]_vars

\* C19: when the registration with the similarity index fails during a save whose
\* sent_messages grew, the save is persisted all the same and no error reaches the
\* publishing handler.
C19_IndexNeverBlocks ==
    (sv_last.op = "save" /\ sv_last.grew /\ sv_last.result # "added") =>
        /\ sv_last.persisted
        /\ ~sv_last.raised
        /\ sv_db = sv_obj

C19_Witness ==
    /\ sv_last.op = "save" /\ sv_last.grew
    /\ sv_last.service = "down"
    /\ sv_last.result = "logged"
    /\ sv_db = <<1, 2>>
    /\ sv_obj = <<1, 2>>

\* C20: when the registration of newly sent messages fails transiently during a
\* save, a retry job for those messages is registered on the job queue.
C20_RetryScheduled ==
    (sv_last.op = "save" /\ sv_last.grew /\ sv_last.service = "down") =>
        /\ sv_last.retry
        /\ sv_retry # {}

C20_Witness ==
    /\ sv_last.op = "save" /\ sv_last.grew /\ sv_last.find = "ok"
    /\ sv_last.service = "down"
    /\ sv_last.result = "logged"
    /\ sv_last.persisted
    /\ ~sv_last.retry
    /\ sv_retry = {}
    /\ sv_db = <<1>>

(***************************************************************************)
(* The current channel of a user and the command object.                   *)
(* commands/channelmanager.py on_call, tg_current_channel, menus;          *)
(* models/user_state.py                                                    *)
(***************************************************************************)
MaxCurUsers == 2
MaxCurChannels == 2
MaxHandlers == 2
CurUsers == 1..MaxCurUsers
CurChannels == 1..MaxCurChannels
Handlers == 1..MaxHandlers
NoChannel == 0

\* ChannelSettings.user of channel c, as register_channel_message_handler set it.
Owner(c) == ((c - 1) % MaxCurUsers) + 1

\* ChannelManager.on_call for an update of user u: the command object, of which
\* there is one, gets the UserState of u as stored.
OnCall(u) == [user |-> u, cur |-> cc_db[u].cur]

\* The tg_current_channel setter and the state assignment on self.tg_state: the
\* document of the user the command object holds now is written.
WriteState(db, self, channel, state) ==
    [db EXCEPT ![self.user] = [state |-> state, cur |-> channel]]

\* An update that no handler acts on: on_call only.
AnyUpdate(u) ==
    /\ cc_self' = OnCall(u)
    /\ UNCHANGED <<cc_chan, cc_db, cc_w, cc_job, cc_last>>
    /\ FrameCurrent

\* User u taps the button of channel c in a channel list that was drawn for u:
\* on_call, then channel_actions_menu on a worker thread.
TapChannel(w, u, c) ==
    /\ cc_w[w].pc = "idle"
    /\ Owner(c) = u
    /\ cc_self' = OnCall(u)
    /\ cc_w' = [cc_w EXCEPT ![w] = [pc |-> "fetch", user |-> u, arg |-> c, got |-> 0]]
    /\ UNCHANGED <<cc_chan, cc_db, cc_job, cc_last>>
    /\ FrameCurrent

\* channel_actions_menu: ChannelSettings.objects(id=...).first().
ChannelActionsFetch(w) ==
    /\ cc_w[w].pc = "fetch"
    /\ cc_w' = [cc_w EXCEPT ![w].pc = "assign",
                            ![w].got = IF cc_w[w].arg \in cc_chan THEN cc_w[w].arg
                                       ELSE NoChannel]
    /\ UNCHANGED <<cc_chan, cc_db, cc_self, cc_job, cc_last>>
    /\ FrameCurrent

\* channel_actions_menu: self.tg_current_channel = ..., then
\* self.tg_state.state = CHANNEL_ACTIONS.
ChannelActionsAssign(w) ==
    /\ cc_w[w].pc = "assign"
    /\ cc_self' = [cc_self EXCEPT !.cur = cc_w[w].got]
    /\ cc_db' = WriteState(cc_db, cc_self, cc_w[w].got, CHANNEL_ACTIONS)
    /\ cc_last' = [op |-> "channel_actions_menu", by |-> cc_w[w].user,
                   wrote |-> cc_self.user, chan |-> cc_w[w].got]
    /\ cc_w' = [cc_w EXCEPT ![w] = NoHandler]
    /\ UNCHANGED <<cc_chan, cc_job>>
    /\ FrameCurrent

\* User u confirms the Remove button of the channel actions menu: on_call, then
\* remove_channel_from_callback_query on a worker thread.
TapRemove(w, u) ==
    /\ cc_w[w].pc = "idle"
    /\ cc_db[u].state = CHANNEL_ACTIONS
    /\ cc_db[u].cur # NoChannel
    /\ cc_self' = OnCall(u)
    /\ cc_w' = [cc_w EXCEPT ![w] = [pc |-> "delete", user |-> u, arg |-> 0, got |-> 0]]
    /\ UNCHANGED <<cc_chan, cc_db, cc_job, cc_last>>
    /\ FrameCurrent

\* remove_channel_from_callback_query: self.tg_current_channel.delete().  The
\* NULLIFY rule of UserState.current_channel clears the stored references; a
\* command object without current channel raises AttributeError.
RemoveDelete(w) ==
    /\ cc_w[w].pc = "delete"
    /\ IF cc_self.cur = NoChannel
       THEN /\ cc_w' = [cc_w EXCEPT ![w] = NoHandler]
            /\ UNCHANGED <<cc_chan, cc_db, cc_last>>
       ELSE /\ cc_chan' = cc_chan \ {cc_self.cur}
            /\ cc_db' = [u \in CurUsers |->
                            IF cc_db[u].cur = cc_self.cur
                            THEN [cc_db[u] EXCEPT !.cur = NoChannel] ELSE cc_db[u]]
            /\ cc_last' = [op |-> "remove_channel", by |-> cc_w[w].user,
                           wrote |-> cc_self.user, chan |-> cc_self.cur]
            /\ cc_w' = [cc_w EXCEPT ![w].pc = "list"]
    /\ UNCHANGED <<cc_self, cc_job>>
    /\ FrameCurrent

\* list_channels_menu at the end of the removal: self.tg_current_channel = None
\* and self.tg_state.state = IDLE.
RemoveList(w) ==
    /\ cc_w[w].pc = "list"
    /\ cc_self' = [cc_self EXCEPT !.cur = NoChannel]
    /\ cc_db' = WriteState(cc_db, cc_self, NoChannel, IDLE)
    /\ cc_last' = [op |-> "list_channels_menu", by |-> cc_w[w].user,
                   wrote |-> cc_self.user, chan |-> NoChannel]
    /\ cc_w' = [cc_w EXCEPT ![w] = NoHandler]
    /\ UNCHANGED <<cc_chan, cc_job>>
    /\ FrameCurrent

\* User u taps Create Post in the channel actions menu: create_post_menu.
TapCreatePost(u) ==
    /\ cc_db[u].state = CHANNEL_ACTIONS
    /\ cc_db[u].cur # NoChannel
    /\ cc_self' = OnCall(u)
    /\ cc_db' = [cc_db EXCEPT ![u].state = CREATE_SINGLE_POST]
    /\ cc_last' = [op |-> "create_post_menu", by |-> u, wrote |-> u, chan |-> cc_db[u].cur]
    /\ UNCHANGED <<cc_chan, cc_w, cc_job>>
    /\ FrameCurrent

\* queue_message_message_handler for a message of user u: the menu refresh job is
\* registered; its callback is a closure over the command object.
QueueForRefresh(u) ==
    /\ cc_db[u].state = CREATE_SINGLE_POST
    /\ cc_job = 0
    /\ cc_self' = OnCall(u)
    /\ cc_job' = u
    /\ UNCHANGED <<cc_chan, cc_db, cc_w, cc_last>>
    /\ FrameCurrent

\* The refresh job fires two seconds later: self.create_post_menu assigns
\* self.tg_state.state = CREATE_SINGLE_POST.
RefreshJobFires ==
    /\ cc_job # 0
    /\ cc_job' = 0
    /\ cc_db' = [cc_db EXCEPT ![cc_self.user].state = CREATE_SINGLE_POST]
    /\ cc_last' = [op |-> "refresh job", by |-> cc_job, wrote |-> cc_self.user,
                   chan |-> cc_self.cur]
    /\ UNCHANGED <<cc_chan, cc_self, cc_w>>
    /\ FrameCurrent

\* Every user has the channels registered and is in the channel list.
InitCurrent ==
    /\ cc_chan = CurChannels
    /\ cc_db = [u \in CurUsers |-> [state |-> IDLE, cur |-> NoChannel]]
    /\ cc_self = NoSelf
    /\ cc_w = [w \in Handlers |-> NoHandler]
    /\ cc_job = 0
    /\ cc_last = NoWrite
    /\ IdleState
    /\ IdleReact
    /\ IdleSchedule
    /\ IdlePost
    /\ IdleRegister
    /\ IdleButton
    /\ IdleLock
    /\ IdleMenu
    /\ IdleQueue
    /\ IdleBoot
    /\ IdleDebounce
    /\ IdleSave
    /\ IdleReset
    /\ IdleSettings
    /\ IdleImport
    /\ IdleMigration
    /\ IdleRetry
    /\ IdleSearch
    /\ IdleWizard
    /\ IdleDelivery
    /\ IdleMutex

NextCurrent ==
    \/ \E u \in CurUsers : AnyUpdate(u)
    \/ \E w \in Handlers, u \in CurUsers, c \in CurChannels : TapChannel(w, u, c)
    \/ \E w \in Handlers : ChannelActionsFetch(w)
    \/ \E w \in Handlers : ChannelActionsAssign(w)
    \/ \E w \in Handlers, u \in CurUsers : TapRemove(w, u)
    \/ \E w \in Handlers : RemoveDelete(w)
    \/ \E w \in Handlers : RemoveList(w)
    \/ \E u \in CurUsers : TapCreatePost(u)
    \/ \E u \in CurUsers : QueueForRefresh(u)
    \/ RefreshJobFires

SpecCurrent == InitCurrent /\ [][NextCurrent]_vars

\* C21: the stored current_channel of every UserState is null or an existing
\* ChannelSettings of that user; deleting a ChannelSettings leaves no stored
\* reference to it.
C21_CurrentChannelOwned ==
    \A u \in CurUsers :
        \/ cc_db[u].cur = NoChannel
        \/ cc_db[u].cur \in cc_chan /\ Owner(cc_db[u].cur) = u

C21_Witness ==
    /\ cc_last.op = "channel_actions_menu"
    /\ cc_last.by = 1 /\ cc_last.wrote = 2 /\ cc_last.chan = 1
    /\ cc_db[2].cur = 1
    /\ 1 \in cc_chan

\* C22: a tap on a button whose id is not in all_buttons, or on a Yes / No button
\* whose original is not in all_buttons, raises nothing: no callback is invoked
\* and the message gets the timed-out notice or loses its keyboard.
C22_StaleTapHandled ==
    b_last.id # NoButton =>
        /\ b_last.outcome # "AttributeError"
        /\ ~b_last.known => b_last.outcome = "timed out" /\ b_last.made = <<>>

\* The No of a prompt was tapped while it was registered and its original was
\* not: original_button is None and original_button.data raised.
C22_Witness ==
    /\ b_last.known /\ b_last.outcome = "AttributeError" /\ b_last.made = <<>>
    /\ Tapped.data.yes_no_answer = "no"
    /\ Tapped.data.original \notin b_all
    /\ b_last.id \in b_all

(***************************************************************************)
(* The /reset command.  commands/channelmanager.py reset_state_command,    *)
(* commands/channel.py reset_state                                         *)
(***************************************************************************)
MaxResetUsers == 2
ResetUsers == 1..MaxResetUsers
\* settings.ADMINS: the user names of the operators.
Admins == {1}
\* '/reset' without argument, and '/reset @name' of a user who is not stored.
NoName == 0
UnknownName == MaxResetUsers + 1
ResetNames == ResetUsers \cup {NoName, UnknownName}

\* Any other handler of ChannelManager moves user u to state s.
ManagerHandler(u, s) ==
    /\ rs_state[u] # s
    /\ rs_state' = [rs_state EXCEPT ![u] = s]
    /\ rs_last' = NoReset
    /\ UNCHANGED <<rs_legacy, rs_cur>>
    /\ FrameReset

\* Any other handler of Channel moves user u to state s (set_user_state).
LegacyHandler(u, s) ==
    /\ rs_legacy[u] # s
    /\ rs_legacy' = [rs_legacy EXCEPT ![u] = s]
    /\ rs_last' = NoReset
    /\ UNCHANGED <<rs_state, rs_cur>>
    /\ FrameReset

\* ChannelManager.reset_state_command for '/reset' or '/reset @name' sent by
\* user u: the named user is looked up; the state that is reset is
\* self.tg_state, the state of the sender, and the new channel list becomes the
\* current message of the sender's chat.
ResetStateCommand(u, name) ==
    LET is_admin == u \in Admins
        last == [impl |-> "manager", by |-> u, target |-> name,
                 before |-> IF name \in ResetUsers THEN rs_state[name] ELSE "-",
                 result |-> "-"]
    IN  IF name # NoName /\ is_admin /\ name \notin ResetUsers
        THEN /\ rs_last' = [last EXCEPT !.result = "could not be found"]
             /\ UNCHANGED <<rs_state, rs_legacy, rs_cur>>
             /\ FrameReset
        ELSE IF rs_state[u] = SEND_LOCKED /\ ~is_admin
        THEN /\ rs_last' = [last EXCEPT !.result = "return"]
             /\ UNCHANGED <<rs_state, rs_legacy, rs_cur>>
             /\ FrameReset
        ELSE /\ rs_state' = [rs_state EXCEPT ![u] = IDLE]
             /\ rs_cur' = rs_cur \cup {u}
             /\ rs_last' = [last EXCEPT !.result = "reset"]
             /\ UNCHANGED rs_legacy
             /\ FrameReset

\* Channel.reset_state for the same command: user becomes the stored document of
\* the named user; user.username of a document raises AttributeError.
ResetState(u, name) ==
    LET is_admin == u \in Admins
        named == name # NoName /\ is_admin
        user == IF named THEN name ELSE u
        last == [impl |-> "legacy", by |-> u, target |-> name,
                 before |-> IF name \in ResetUsers THEN rs_legacy[name] ELSE "-",
                 result |-> "-"]
    IN  IF named /\ name \notin ResetUsers
        THEN /\ rs_last' = [last EXCEPT !.result = "could not be found"]
             /\ UNCHANGED <<rs_state, rs_legacy, rs_cur>>
             /\ FrameReset
        ELSE IF rs_legacy[user] = SEND_LOCKED /\ named
        THEN /\ rs_last' = [last EXCEPT !.result = "AttributeError"]
             /\ UNCHANGED <<rs_state, rs_legacy, rs_cur>>
             /\ FrameReset
        ELSE IF rs_legacy[user] = SEND_LOCKED /\ ~is_admin
        THEN /\ rs_last' = [last EXCEPT !.result = "return"]
             /\ UNCHANGED <<rs_state, rs_legacy, rs_cur>>
             /\ FrameReset
        ELSE /\ rs_legacy' = [rs_legacy EXCEPT ![user] = IDLE]
             /\ rs_last' = [last EXCEPT !.result = "reset"]
             /\ UNCHANGED <<rs_state, rs_cur>>
             /\ FrameReset

InitReset ==
    /\ rs_state = [u \in ResetUsers |-> IDLE]
    /\ rs_legacy = [u \in ResetUsers |-> IDLE]
    /\ rs_cur = {}
    /\ rs_last = NoReset
    /\ IdleState
    /\ IdleReact
    /\ IdleSchedule
    /\ IdlePost
    /\ IdleRegister
    /\ IdleButton
    /\ IdleLock
    /\ IdleMenu
    /\ IdleQueue
    /\ IdleBoot
    /\ IdleDebounce
    /\ IdleSave
    /\ IdleCurrent
    /\ IdleSettings
    /\ IdleImport
    /\ IdleMigration
    /\ IdleRetry
    /\ IdleSearch
    /\ IdleWizard
    /\ IdleDelivery
    /\ IdleMutex

NextReset ==
    \/ \E u \in ResetUsers, s \in {IDLE, CREATE_SINGLE_POST, SEND_LOCKED} : ManagerHandler(u, s)
    \/ \E u \in ResetUsers, s \in {IDLE, CREATE_SINGLE_POST, SEND_LOCKED} : LegacyHandler(u, s)
    \/ \E u \in ResetUsers, name \in ResetNames : ResetStateCommand(u, name)
    \/ \E u \in ResetUsers, name \in ResetNames : ResetState(u, name)

SpecReset == InitReset /\ [][NextReset]_vars

\* The stored state of the user named in the last /reset.
TargetState ==
    IF rs_last.impl = "manager" THEN rs_state[rs_last.target] ELSE rs_legacy[rs_last.target]

\* C23: after an operator's /reset that names another stored user who is not
\* locked, the state of that user is IDLE.
C23_OperatorResetsNamedUser ==
    (/\ rs_last.impl # "-"
     /\ rs_last.by \in Admins
     /\ rs_last.target \in ResetUsers \ {rs_last.by}
     /\ rs_last.before # SEND_LOCKED) => TargetState = IDLE

\* The operator, in IDLE, named user 2, who is composing a post:
\* reset_state_command reported nothing and user 2 is still composing.
C23_Witness ==
    /\ rs_last = [impl |-> "manager", by |-> 1, target |-> 2,
                  before |-> CREATE_SINGLE_POST, result |-> "reset"]
    /\ rs_state[2] = CREATE_SINGLE_POST
    /\ rs_state[1] = IDLE

(***************************************************************************)
(* The settings of a channel: default caption and reactions.               *)
(* commands/channelmanager.py settings_menu, change_caption_menu,          *)
(* change_caption_message_handler, change_reactions_message_handler        *)
(***************************************************************************)
IN_SETTINGS == "in settings"
CHANGE_DEFAULT_CAPTION == "change default caption"
CHANGE_DEFAULT_REACTION == "change default reaction"
MaxTextLen == 2
\* The characters of a message text; ThumbsUp is an emoji.
ThumbsUp == "+1"
Chars == {"a", ThumbsUp}
\* message.text: a non-empty string, or None (written <<>>) for a message that has
\* no text, such as a photo.
NoText == <<>>
Texts == UNION {[1..n -> Chars] : n \in 0..MaxTextLen}

\* A message reaches every handler.
AlwaysText(text) == TRUE

\* The test of change_caption_message_handler: not (not self.message.text).
HasText(text) == text # NoText

\* emoji.emoji_lis(text): the emoji of the text in their order.
EmojiLis(text) == SelectSeq(text, LAMBDA ch : ch = ThumbsUp)

Setting(op, text, result) ==
    [op |-> op, text |-> text, caption |-> st_caption, state |-> st_state, result |-> result]

\* settings_menu, from Settings of the channel actions or from Finished.
SettingsMenu ==
    /\ st_state # IN_SETTINGS
    /\ st_state' = IN_SETTINGS
    /\ st_last' = Setting("settings_menu", NoText, "menu")
    /\ UNCHANGED <<st_caption, st_reactions>>
    /\ FrameSettings

\* change_caption_menu, from the Caption button of the settings.
ChangeCaptionMenu ==
    /\ st_state = IN_SETTINGS
    /\ st_state' = CHANGE_DEFAULT_CAPTION
    /\ st_last' = Setting("change_caption_menu", NoText, "menu")
    /\ UNCHANGED <<st_caption, st_reactions>>
    /\ FrameSettings

\* change_reactions_menu, from the Reactions button of the settings.
ChangeReactionsMenu ==
    /\ st_state = IN_SETTINGS
    /\ st_state' = CHANGE_DEFAULT_REACTION
    /\ st_last' = Setting("change_reactions_menu", NoText, "menu")
    /\ UNCHANGED <<st_caption, st_reactions>>
    /\ FrameSettings

\* message_handler_dispatcher in CHANGE_DEFAULT_CAPTION:
\* change_caption_message_handler, which ends in change_caption_menu.
ChangeCaptionMessageHandler(text) ==
    /\ st_state = CHANGE_DEFAULT_CAPTION
    /\ IF ~HasText(text)
       THEN /\ st_last' = Setting("change_caption", text, "You have to send me some text")
            /\ UNCHANGED <<st_state, st_caption>>
       ELSE /\ st_caption' = text
            /\ st_state' = CHANGE_DEFAULT_CAPTION
            /\ st_last' = Setting("change_caption", text, "saved")
    /\ UNCHANGED st_reactions
    /\ FrameSettings

\* message_handler_dispatcher in CHANGE_DEFAULT_REACTION:
\* change_reactions_message_handler, which ends in change_reactions_menu;
\* emoji_lis of None raises TypeError.
ChangeReactionsMessageHandler(text) ==
    /\ st_state = CHANGE_DEFAULT_REACTION
    /\ IF text = NoText
       THEN /\ st_last' = Setting("change_reactions", text, "TypeError")
            /\ UNCHANGED <<st_state, st_reactions>>
       ELSE IF EmojiLis(text) = <<>>
       THEN /\ st_last' = Setting("change_reactions", text, "You have to send me some reactions")
            /\ UNCHANGED <<st_state, st_reactions>>
       ELSE /\ st_reactions' = EmojiLis(text)
            /\ st_state' = CHANGE_DEFAULT_REACTION
            /\ st_last' = Setting("change_reactions", text, "saved")
    /\ UNCHANGED st_caption
    /\ FrameSettings

\* The user opened the settings of a channel that has neither caption nor
\* reactions.
InitSettings ==
    /\ st_state = IN_SETTINGS
    /\ st_caption = NoText
    /\ st_reactions = <<>>
    /\ st_last = NoSetting
    /\ IdleState
    /\ IdleReact
    /\ IdleSchedule
    /\ IdlePost
    /\ IdleRegister
    /\ IdleButton
    /\ IdleLock
    /\ IdleMenu
    /\ IdleQueue
    /\ IdleBoot
    /\ IdleDebounce
    /\ IdleSave
    /\ IdleCurrent
    /\ IdleReset
    /\ IdleImport
    /\ IdleMigration
    /\ IdleRetry
    /\ IdleSearch
    /\ IdleWizard
    /\ IdleDelivery
    /\ IdleMutex

NextSettings ==
    \/ SettingsMenu
    \/ ChangeCaptionMenu
    \/ ChangeReactionsMenu
    \/ \E text \in Texts : ChangeCaptionMessageHandler(text)
    \/ \E text \in Texts : ChangeReactionsMessageHandler(text)

SpecSettings == InitSettings /\ [][NextSettings]_vars

MaxImport == 3
MaxImportMsgs == 2
MaxFinish == 3
ImportMsgs == 1..MaxImportMsgs

\* list.remove(x): the list without the first item equal to x, which is in it.
ListRemove(list, x) ==
    LET i == CHOOSE k \in 1..Len(list) : list[k] = x /\ \A j \in 1..(k - 1) : list[j] # x
    IN  SubSeq(list, 1, i - 1) \o SubSeq(list, i + 1, Len(list))

\* An except branch that leaves import_messages as it is.
KeepImport(slot, import) == import

\* except (BaseException, Exception): import_messages becomes a copy of what is
\* left in the slot.
ExceptBaseException(slot, import) == slot

\* The loop of import_sent_messages_callback_query over a copy of the slot:
\* add_to_image_match is called with the keyword metadata; a message whose call
\* returned is removed from the slot and the channel is saved; the first
\* exception ends the loop.
RECURSIVE ImportLoop(_, _, _)
ImportLoop(todo, slot, service) ==
    IF todo = <<>> THEN [slot |-> slot, failed |-> FALSE, done |-> 0, added |-> {}]
    ELSE LET r == AddToImageMatch("metadata", service)
         IN  IF r \in Exceptions
             THEN [slot |-> slot, failed |-> TRUE, done |-> 0, added |-> {}]
             ELSE LET rest == ImportLoop(Tail(todo), ListRemove(slot, Head(todo)), service)
                  IN  [rest EXCEPT !.done = @ + 1,
                                   !.added = @ \cup (IF r = "added" THEN {Head(todo)} ELSE {})]

\* add_message_to_import_queue_message_handler for a message the channel has not
\* sent.
AddMessageToImportQueue(m) ==
    /\ Len(im_import) < MaxImport
    /\ im_import' = Append(im_import, m)
    /\ im_last' = [NoImport EXCEPT !.op = "add"]
    /\ UNCHANGED <<im_queue, im_index, im_uuid>>
    /\ FrameImport

\* clear_import_queue_callback_query.
ClearImportQueue ==
    /\ im_import # <<>>
    /\ im_import' = <<>>
    /\ im_last' = [NoImport EXCEPT !.op = "clear"]
    /\ UNCHANGED <<im_queue, im_index, im_uuid>>
    /\ FrameImport

\* import_sent_messages_callback_query, from Finish of the import menu: the
\* messages move into a new slot of import_messages_queue, the loop runs, and on
\* an exception what is left of the slot moves back and the slot is deleted.  A
\* slot whose loop ended stays, empty.
ImportSentMessages(service) ==
    LET uuid == im_uuid + 1
        out == ImportLoop(im_import, im_import, service)
    IN  /\ im_uuid < MaxFinish
        /\ im_uuid' = uuid
        /\ im_index' = im_index \cup out.added
        /\ im_import' = IF out.failed THEN ExceptBaseException(out.slot, <<>>) ELSE <<>>
        /\ im_queue' = IF out.failed THEN im_queue
                       ELSE [k \in DOMAIN im_queue \cup {uuid} |->
                                IF k = uuid THEN out.slot ELSE im_queue[k]]
        /\ im_last' = [op |-> "import", batch |-> im_import, uuid |-> uuid,
                       done |-> out.done, failed |-> out.failed]
        /\ FrameImport

InitImport ==
    /\ im_import = <<>>
    /\ im_queue = <<>>
    /\ im_index = {}
    /\ im_uuid = 0
    /\ im_last = NoImport
    /\ IdleState
    /\ IdleReact
    /\ IdleSchedule
    /\ IdlePost
    /\ IdleRegister
    /\ IdleButton
    /\ IdleLock
    /\ IdleMenu
    /\ IdleQueue
    /\ IdleBoot
    /\ IdleDebounce
    /\ IdleSave
    /\ IdleCurrent
    /\ IdleReset
    /\ IdleSettings
    /\ IdleMigration
    /\ IdleRetry
    /\ IdleSearch
    /\ IdleWizard
    /\ IdleDelivery
    /\ IdleMutex

NextImport ==
    \/ \E m \in ImportMsgs : AddMessageToImportQueue(m)
    \/ ClearImportQueue
    \/ \E service \in Services : ImportSentMessages(service)

SpecImport == InitImport /\ [][NextImport]_vars

MaxMigMsgs == 2
MaxMigChats == 2
MaxMigList == 2
MaxMigRuns == 3
MigIds == 1..MaxMigMsgs
MigChats == 1..MaxMigChats

\* A value of _id: the integer message_id of the old scheme or an ObjectId.  The
\* 24 hexadecimal characters of an ObjectId can all be decimal digits.
IntId(n) == [kind |-> "int", n |-> n, digits |-> TRUE]
ObjectId(n, digits) == [kind |-> "ObjectId", n |-> n, digits |-> digits]
\* A document of the old scheme has no field message_id.
NoField == IntId(0)

\* int() accepts every _id.
AlwaysOld(id) == TRUE

\* Message.__init__: is_old, int(message['_id']) does not raise.
IsOld(id) == id.kind = "int"

\* Message.__init__ and get_new_message for a stored document; fresh is the
\* ObjectId() made for a document of the old scheme.
Message(msg, fresh) ==
    IF IsOld(msg.id)
    THEN [is_old |-> TRUE, old_id |-> msg.id, new_id |-> fresh,
          new_message |-> [msg EXCEPT !.id = fresh, !.message_id = msg.id]]
    ELSE [is_old |-> FALSE, old_id |-> msg.message_id, new_id |-> msg.id,
          new_message |-> msg]

\* replace_id of migrate_channels.
ReplaceId(channel, id, message) ==
    IF id = message.old_id /\ channel.user = message.new_message.chat
    THEN message.new_id ELSE id

MapIds(channel, ids, message) == [i \in DOMAIN ids |-> ReplaceId(channel, ids[i], message)]

\* migrate_channels for one channel: the three lists and the two maps of lists;
\* a map that is stored as a list becomes the empty map.
MigrateChannel(channel, message) ==
    [user |-> channel.user,
     lists |-> [f \in DOMAIN channel.lists |-> MapIds(channel, channel.lists[f], message)],
     maps |-> [f \in DOMAIN channel.maps |->
                  IF channel.maps[f].islist THEN [islist |-> FALSE, items |-> <<>>]
                  ELSE [islist |-> FALSE,
                        items |-> [k \in DOMAIN channel.maps[f].items |->
                                      MapIds(channel, channel.maps[f].items[k], message)]]]]

\* old_id_filter: not str(item).isdigit().
OldIdFilter(item) == ~item.digits

\* save_channels for one channel.
SaveChannels(channel) ==
    [user |-> channel.user,
     lists |-> [f \in DOMAIN channel.lists |-> SelectSeq(channel.lists[f], OldIdFilter)],
     maps |-> [f \in DOMAIN channel.maps |->
                  [islist |-> channel.maps[f].islist,
                   items |-> [k \in DOMAIN channel.maps[f].items |->
                                 SelectSeq(channel.maps[f].items[k], OldIdFilter)]]]]

\* Migrator.migrate over the documents todo, which were read at the start: each
\* old document is inserted under a new _id and deleted, and the channels held in
\* memory are rewritten; digits are the new ObjectIds that consist of digits.
RECURSIVE MigrateLoop(_, _, _, _, _)
MigrateLoop(todo, msgs, channels, oid, digits) ==
    IF todo = <<>> THEN [msgs |-> msgs, channels |-> channels, oid |-> oid]
    ELSE LET msg == Head(todo)
             fresh == ObjectId(oid + 1, (oid + 1) \in digits)
             message == Message(msg, fresh)
             stored == IF message.is_old THEN (msgs \cup {message.new_message}) \ {msg}
                       ELSE msgs
             rewritten == [c \in DOMAIN channels |-> MigrateChannel(channels[c], message)]
         IN  MigrateLoop(Tail(todo), stored, rewritten,
                         IF message.is_old THEN oid + 1 ELSE oid, digits)

\* The documents of the collection in the order of list(find())[::-1].
RECURSIVE Reversed(_)
Reversed(msgs) ==
    IF msgs = {} THEN <<>>
    ELSE LET last == CHOOSE m \in msgs :
                        \A o \in msgs : o.id.kind = m.id.kind => o.id.n <= m.id.n
         IN  <<last>> \o Reversed(msgs \ {last})

\* Migrator()(): migrate, then save_channels.
MigratorCall(digits) ==
    LET out == MigrateLoop(Reversed(mg_msgs), mg_msgs, mg_chan, mg_oid, digits)
    IN  /\ mg_runs < MaxMigRuns
        /\ mg_runs' = mg_runs + 1
        /\ mg_before' = [msgs |-> mg_msgs, chan |-> mg_chan]
        /\ mg_msgs' = out.msgs
        /\ mg_chan' = [c \in DOMAIN out.channels |-> SaveChannels(out.channels[c])]
        /\ mg_oid' = out.oid
        /\ FrameMigration

\* The lists of ids a channel of the old scheme can hold.
MigLists == UNION {[1..n -> {IntId(i) : i \in MigIds}] : n \in 0..MaxMigList}

\* A database of the old scheme: messages with integer _id, and one channel
\* whose added messages are the later ones of those it has sent.
InitMigration ==
    /\ \E chats \in [MigIds -> MigChats \cup {0}] :
          mg_msgs = {[id |-> IntId(i), message_id |-> NoField, chat |-> chats[i]] :
                        i \in {j \in MigIds : chats[j] # 0}}
    /\ \E user \in MigChats, sent \in MigLists,
          queued \in {[islist |-> TRUE, items |-> <<>>],
                      [islist |-> FALSE, items |-> <<>>],
                      [islist |-> FALSE, items |-> <<<<IntId(1), IntId(2)>>>>]} :
          mg_chan = <<[user |-> user,
                       lists |-> [import_messages |-> <<>>, sent_messages |-> sent,
                                  added_messages |-> SubSeq(sent, 2, Len(sent))],
                       maps |-> [queued_messages |-> queued,
                                 import_messages_queue |-> [islist |-> TRUE, items |-> <<>>]]]>>
    /\ mg_oid = 0
    /\ mg_runs = 0
    /\ mg_before = NoDatabase
    /\ IdleState
    /\ IdleReact
    /\ IdleSchedule
    /\ IdlePost
    /\ IdleRegister
    /\ IdleButton
    /\ IdleLock
    /\ IdleMenu
    /\ IdleQueue
    /\ IdleBoot
    /\ IdleDebounce
    /\ IdleSave
    /\ IdleCurrent
    /\ IdleReset
    /\ IdleSettings
    /\ IdleImport
    /\ IdleRetry
    /\ IdleSearch
    /\ IdleWizard
    /\ IdleDelivery
    /\ IdleMutex

\* The documents of the old scheme: one ObjectId is made for each.
OldMessages == {msg \in mg_msgs : IsOld(msg.id)}

NextMigration ==
    \E digits \in SUBSET ((mg_oid + 1)..(mg_oid + Cardinality(OldMessages))) :
        MigratorCall(digits)

SpecMigration == InitMigration /\ [][NextMigration]_vars

\* C26: a run of the migration after the first one leaves the messages and the
\* channels as they were.
C26_SecondRunChangesNothing ==
    mg_runs >= 2 => (mg_msgs = mg_before.msgs /\ mg_chan = mg_before.chan)

\* The second run found two migrated messages and a channel whose sent_messages
\* refer to them by ObjectId.
C26_Witness ==
    /\ mg_runs = 2
    /\ mg_msgs = {[id |-> ObjectId(2, FALSE), message_id |-> IntId(1), chat |-> 1],
                  [id |-> ObjectId(1, FALSE), message_id |-> IntId(2), chat |-> 1]}
    /\ mg_chan[1].user = 1
    /\ mg_chan[1].lists.sent_messages = <<ObjectId(2, FALSE), ObjectId(1, FALSE)>>
    /\ mg_chan[1].maps.queued_messages.islist = FALSE

(***************************************************************************)
(* The retry decorator.  utils/telegram.py retry_command                   *)
(***************************************************************************)
\* retries of the decorator used without arguments.
Retries == 3

\* What a call of the decorated function does: it returns, or raises TimedOut, a
\* NetworkError whose message says that the write operation timed out, another
\* NetworkError, or an exception of another class.
CallOutcomes == {"return", "TimedOut", "write timed out", "NetworkError", "ValueError"}
TimeOuts == {"TimedOut", "write timed out"}

\* The positional arguments of the call: (bot, update) with update.message set,
\* (bot, update) of a callback query, whose update.message is None, and
\* (self, bot, update) of a method of a command class.
ArgKinds == {"message update", "callback query update", "method"}

\* notify_user and existing_update or
\* (len(args) > 1 and getattr(args[1], 'message', None)), where existing_update
\* is None for the decorator used without arguments.
Notifies(args) == args = "message update"

\* A decorated function is called.
RetryStart(args) ==
    /\ rt_pc # "loop"
    /\ rt_pc' = "loop"
    /\ rt_args' = args
    /\ rt_hist' = <<>>
    /\ rt_error' = NoError
    /\ rt_notified' = FALSE
    /\ rt_out' = "-"
    /\ FrameRetry

\* One pass of the loop: error = None, then the call.
RetryCall(outcome) ==
    /\ rt_pc = "loop"
    /\ Len(rt_hist) < Retries
    /\ rt_hist' = Append(rt_hist, outcome)
    /\ rt_error' = IF outcome \in TimeOuts THEN outcome ELSE NoError
    /\ rt_out' = CASE outcome = "return" -> "returned"
                   [] outcome = "ValueError" -> "raised ValueError"
                   [] OTHER -> rt_out
    /\ rt_pc' = IF outcome \in {"return", "ValueError"} THEN "done" ELSE "loop"
    /\ UNCHANGED <<rt_args, rt_notified>>
    /\ FrameRetry

\* The else clause of the loop: the notice, whose reply_text can time out like
\* any call of the bot, then raise error if the last pass set it.
RetryElse(reply) ==
    /\ rt_pc = "loop"
    /\ Len(rt_hist) = Retries
    /\ Notifies(rt_args) \/ reply = "sent"
    /\ rt_pc' = "done"
    /\ rt_notified' = (Notifies(rt_args) /\ reply = "sent")
    /\ rt_out' = IF Notifies(rt_args) /\ reply # "sent" THEN "raised TimedOut of the notice"
                 ELSE IF rt_error # NoError THEN "raised the last error"
                 ELSE "returned None"
    /\ UNCHANGED <<rt_args, rt_hist, rt_error>>
    /\ FrameRetry

InitRetry ==
    /\ rt_pc = "idle"
    /\ rt_args = "-"
    /\ rt_hist = <<>>
    /\ rt_error = NoError
    /\ rt_notified = FALSE
    /\ rt_out = "-"
    /\ IdleState
    /\ IdleReact
    /\ IdleSchedule
    /\ IdlePost
    /\ IdleRegister
    /\ IdleButton
    /\ IdleLock
    /\ IdleMenu
    /\ IdleQueue
    /\ IdleBoot
    /\ IdleDebounce
    /\ IdleSave
    /\ IdleCurrent
    /\ IdleReset
    /\ IdleSettings
    /\ IdleImport
    /\ IdleMigration
    /\ IdleSearch
    /\ IdleWizard
    /\ IdleDelivery
    /\ IdleMutex

NextRetry ==
    \/ \E args \in ArgKinds : RetryStart(args)
    \/ \E outcome \in CallOutcomes : RetryCall(outcome)
    \/ \E reply \in {"sent", "TimedOut"} : RetryElse(reply)

SpecRetry == InitRetry /\ [][NextRetry]_vars

\* C27: the decorated function is called at most three times; a call that returns
\* is the last one and the wrapper returns its result; after three calls that
\* timed out the chat of the update is notified and the time-out is raised.
C27_RetryThenNotify ==
    /\ Len(rt_hist) <= Retries
    /\ \A i \in DOMAIN rt_hist :
          rt_hist[i] = "return" => (i = Len(rt_hist) /\ rt_out = "returned")
    /\ (rt_pc = "done" /\ Len(rt_hist) = Retries
        /\ \A i \in DOMAIN rt_hist : rt_hist[i] \in TimeOuts) =>
          (rt_notified /\ rt_out = "raised the last error")

\* Three time-outs in the handler of a callback query: the error was raised and
\* nobody was notified.
C27_Witness ==
    /\ rt_pc = "done"
    /\ rt_args = "callback query update"
    /\ rt_hist = <<"TimedOut", "TimedOut", "TimedOut">>
    /\ ~rt_notified
    /\ rt_out = "raised the last error"

(***************************************************************************)
(* The tag limit of the image board search.                                *)
(* src/xenian/bot/commands/animedatabases.py                               *)
(***************************************************************************)
FREE_LEVEL == 20
GOLD_LEVEL == 30
MaxWords == 4
MaxGroupSize == 10

\* LEVEL_RESTRICTIONS['tag_limit'] of the two levels.
TagLimit(level) == IF level = FREE_LEVEL THEN 2 ELSE 6

\* The words of a query, which are joined by spaces: three tags, a word made of
\* characters the black list removes, a qualifier, and a comma.
Bang == "!"
Comma == ","
Qualifier == "order:score"
Words == {"a", "b", "c", Bang, Qualifier, Comma}
\* The option group=N of the query: none, 5 or 11.
GroupSizes == {0, 5, 11}

\* text.split(','): the words between the commas.
RECURSIVE SplitComma(_, _)
SplitComma(words, term) ==
    IF words = <<>> THEN <<term>>
    ELSE IF Head(words) = Comma THEN <<term>> \o SplitComma(Tail(words), <<>>)
    ELSE SplitComma(Tail(words), Append(term, Head(words)))

\* terms = text.split(',') if ',' in text else text.split(' ')
Split(words) ==
    IF \E i \in DOMAIN words : words[i] = Comma THEN SplitComma(words, <<>>)
    ELSE [i \in DOMAIN words |-> <<words[i]>>]

\* black_list.sub('', term) on one word.
BlackListSub(word) == IF word = Bang THEN "" ELSE word

\* term.strip(): the blanks at both ends go; the words that are left are the
\* parts of the tag, which replace(' ', '_') joins.
RECURSIVE Strip(_)
Strip(term) ==
    IF term = <<>> THEN term
    ELSE IF Head(term) = "" THEN Strip(Tail(term))
    ELSE IF term[Len(term)] = "" THEN Strip(SubSeq(term, 1, Len(term) - 1))
    ELSE term

\* A list as it is.
KeepAll(terms) == terms

\* list(OrderedDict.fromkeys(terms))
RECURSIVE FromKeys(_)
FromKeys(terms) ==
    IF terms = <<>> THEN <<>>
    ELSE LET front == FromKeys(SubSeq(terms, 1, Len(terms) - 1))
             last == terms[Len(terms)]
         IN  IF \E i \in DOMAIN front : front[i] = last THEN front ELSE Append(front, last)

\* filter_terms
FilterTerms(terms) ==
    LET clean == [i \in DOMAIN terms |-> Strip([j \in DOMAIN terms[i] |-> BlackListSub(terms[i][j])])]
    IN  FromKeys(SelectSeq(clean, LAMBDA term : term # <<>>))

\* ':' in term
HasColon(term) == \E j \in DOMAIN term : term[j] = Qualifier

\* danbooru_search up to the call of the image board.
DanbooruSearch(args, group, level) ==
    LET terms == FilterTerms(Split(args))
        plain == SelectSeq(terms, LAMBDA term : ~HasColon(term))
    IN  [args |-> args, group |-> group, level |-> level, terms |-> terms,
         out |-> IF group > MaxGroupSize THEN "Max group size is 10"
                 ELSE IF Len(plain) > TagLimit(level) THEN "Only tag_limit tags can be used."
                 ELSE "post_list"]

\* The search command is handled.
Search ==
    /\ da_n = 0
    /\ da_n' = 1
    /\ da_last' = DanbooruSearch(da_last.args, da_last.group, da_last.level)
    /\ FrameSearch

\* A search command with some words and a group option arrives, on a service
\* whose account has the free or the gold level.
InitSearch ==
    /\ \E n \in 0..MaxWords, group \in GroupSizes, level \in {FREE_LEVEL, GOLD_LEVEL} :
          \E args \in [1..n -> Words] :
              da_last = [NoSearch EXCEPT !.args = args, !.group = group, !.level = level]
    /\ da_n = 0
    /\ IdleState
    /\ IdleReact
    /\ IdleSchedule
    /\ IdlePost
    /\ IdleRegister
    /\ IdleButton
    /\ IdleLock
    /\ IdleMenu
    /\ IdleQueue
    /\ IdleBoot
    /\ IdleDebounce
    /\ IdleSave
    /\ IdleCurrent
    /\ IdleReset
    /\ IdleSettings
    /\ IdleImport
    /\ IdleMigration
    /\ IdleRetry
    /\ IdleWizard
    /\ IdleDelivery
    /\ IdleMutex

NextSearch == Search

SpecSearch == InitSearch /\ [][NextSearch]_vars

\* The different tags without a colon that the words of the last search make: a
\* tag is what stands between two commas, or a single word when the query has no
\* comma, without the removed characters and the blanks around it.
PlainTags ==
    LET args == da_last.args
        commas == {i \in DOMAIN args : args[i] = Comma}
        Piece(i, j) == Strip([k \in 1..(j - i - 1) |-> BlackListSub(args[i + k])])
        stops == commas \cup {0, Len(args) + 1}
        pieces == IF commas = {}
                  THEN {Piece(i - 1, i + 1) : i \in DOMAIN args}
                  ELSE {Piece(i, j) : <<i, j>> \in
                          {p \in stops \X stops :
                              p[1] < p[2] /\ \A s \in stops : ~(p[1] < s /\ s < p[2])}}
    IN  {t \in pieces : t # <<>> /\ \A k \in DOMAIN t : t[k] # Qualifier}

\* C28 as stated: on a service of the free level a search is rejected before the
\* image board is called exactly when it has more than two different tags without
\* a colon.
C28_RejectedIffOverLimit ==
    (da_n > 0 /\ da_last.level = FREE_LEVEL) =>
        (da_last.out # "post_list" <=> Cardinality(PlainTags) > 2)

\* C28, amended: on a service of the free level a search whose group size is at
\* most 10 is rejected before the image board is called exactly when it has more
\* than two different tags without a colon, and then with the notice of the tag
\* limit; a search with a larger group size is rejected whatever its tags.
C28_TagLimit ==
    (da_n > 0 /\ da_last.level = FREE_LEVEL) =>
        /\ da_last.group <= MaxGroupSize =>
              /\ da_last.out # "post_list" <=> Cardinality(PlainTags) > 2
              /\ da_last.out # "post_list" => da_last.out = "Only tag_limit tags can be used."
        /\ da_last.group > MaxGroupSize => da_last.out = "Max group size is 10"

\* Two tags and two qualifiers were accepted on the free level.
C28_Witness ==
    /\ da_last.level = FREE_LEVEL
    /\ da_last.args = <<"a", Qualifier, "b", Qualifier>>
    /\ da_last.group = 5
    /\ da_last.terms = <<<<"a">>, <<Qualifier>>, <<"b">>>>
    /\ da_last.out = "post_list"

(***************************************************************************)
(* Text messages in the scheduling wizard.                                 *)
(* commands/channelmanager.py message_handler_dispatcher                   *)
(***************************************************************************)
WizardSteps ==
    {SCHEDULE_ADDED_MESSAGES_WHEN, SCHEDULE_ADDED_MESSAGES_DELAY, SCHEDULE_ADDED_MESSAGES_BATCH}

\* The texts a user sends in a step: a time, 'now' or something else; a duration
\* or something else; a number or something without a digit.
StepTexts(state) ==
    CASE state = SCHEDULE_ADDED_MESSAGES_WHEN -> Times \cup {NowStr, Unparsable}
      [] state = SCHEDULE_ADDED_MESSAGES_DELAY -> {JobsDelay, Unparsable}
      [] OTHER -> {JobsBatch, Unparsable}

\* A text message of the user arrives: on_call loads the UserState and
\* message_handler_dispatcher reads its state.
TextArrives(text) ==
    /\ ~wz_in.pending
    /\ sc_state \in WizardSteps
    /\ text \in StepTexts(sc_state)
    /\ wz_in' = [pending |-> TRUE, text |-> text, state |-> sc_state, data |-> sc_data]
    /\ UNCHANGED varsSchedule
    /\ UNCHANGED <<varsState, varsReact, varsPost, varsRegister, varsButton, varsLock>>
    /\ UNCHANGED <<varsMenu, varsQueue, varsBoot, varsDebounce, varsSave, varsCurrent>>
    /\ UNCHANGED <<varsReset, varsSettings, varsImport, varsMigration, varsRetry, varsSearch, varsDelivery, varsMutex>>

\* message_handler_dispatcher: the menu of the next step is called with the text.
DispatchText(now) ==
    /\ wz_in.pending
    /\ wz_in.state = sc_state
    /\ wz_in.data = sc_data
    /\ CASE sc_state = SCHEDULE_ADDED_MESSAGES_WHEN -> ScheduleDelayMenu("time", wz_in.text)
         [] sc_state = SCHEDULE_ADDED_MESSAGES_DELAY -> ScheduleBatchSizeMenu(wz_in.text, now)
         [] OTHER -> ScheduleConfirmationMenu(wz_in.text, now)

\* The handler of the text has returned.
TextDone ==
    /\ wz_in.pending
    /\ wz_in' = NoWizardText
    /\ UNCHANGED varsSchedule
    /\ UNCHANGED <<varsState, varsReact, varsPost, varsRegister, varsButton, varsLock>>
    /\ UNCHANGED <<varsMenu, varsQueue, varsBoot, varsDebounce, varsSave, varsCurrent>>
    /\ UNCHANGED <<varsReset, varsSettings, varsImport, varsMigration, varsRetry, varsSearch, varsDelivery, varsMutex>>

\* The wizard starts in the post menu with two messages added to the queue.
InitWizard ==
    /\ sc_added = <<1, 2>>
    /\ sc_scheduled = <<>>
    /\ sc_jobs = <<>>
    /\ sc_state = CREATE_SINGLE_POST
    /\ sc_data = NoData
    /\ sc_change = FALSE
    /\ sc_shown = {}
    /\ sc_last = NoConfirm
    /\ wz_in = NoWizardText
    /\ IdleState
    /\ IdleReact
    /\ IdlePost
    /\ IdleRegister
    /\ IdleButton
    /\ IdleLock
    /\ IdleMenu
    /\ IdleQueue
    /\ IdleBoot
    /\ IdleDebounce
    /\ IdleSave
    /\ IdleCurrent
    /\ IdleReset
    /\ IdleSettings
    /\ IdleImport
    /\ IdleMigration
    /\ IdleRetry
    /\ IdleSearch
    /\ IdleDelivery
    /\ IdleMutex

\* The buttons of the wizard are tapped and messages are queued between two
\* text messages.
NextWizard ==
    \/ \E text \in Times \cup {NowStr, Unparsable, JobsDelay, JobsBatch} : TextArrives(text)
    \/ \E now \in Times : DispatchText(now)
    \/ TextDone
    \/ ~wz_in.pending /\ ScCreatePostMenu
    \/ ~wz_in.pending /\ ScheduleWhenMenu
    \/ ~wz_in.pending /\ \E kind \in {"extend", "append"} : ScheduleDelayMenu(kind, NowStr)
    \/ ~wz_in.pending /\ \E now \in Times : ScheduleCallbackQuery(FALSE, now)
    \/ ~wz_in.pending /\ ScQueueMessage(NextMessage)

SpecWizard == InitWizard /\ [][NextWizard]_vars

\* The value state_data holds for a step of the wizard, None when it has none.
StepValue(data, state) ==
    CASE state = SCHEDULE_ADDED_MESSAGES_WHEN ->
            IF "when" \in data.keys THEN <<data.when>> ELSE <<>>
      [] state = SCHEDULE_ADDED_MESSAGES_DELAY ->
            IF "delay" \in data.keys THEN <<data.delay>> ELSE <<>>
      [] OTHER -> IF "batch" \in data.keys THEN <<data.batch>> ELSE <<>>

\* C29: while and after a text that cannot be read as a time, a duration or a
\* number is handled in a step of the wizard, the value state_data holds for
\* that step is the one it held when the text arrived and the user is in that
\* step.
C29_UnparsableRejected ==
    (wz_in.pending /\ wz_in.text = Unparsable) =>
        /\ sc_state = wz_in.state
        /\ StepValue(sc_data, wz_in.state) = StepValue(wz_in.data, wz_in.state)

\* A text that is no time was sent as start time: it is stored and the user is
\* asked for the delay.
C29_Witness ==
    /\ wz_in.pending /\ wz_in.text = Unparsable
    /\ wz_in.state = SCHEDULE_ADDED_MESSAGES_WHEN
    /\ "when" \notin wz_in.data.keys
    /\ sc_state = SCHEDULE_ADDED_MESSAGES_DELAY
    /\ "when" \in sc_data.keys /\ sc_data.when = Unparsable

\* C30: every write of a handler body, on a worker thread or in the menu refresh
\* job, goes to the UserState of the user whose update triggered the handler,
\* also when updates of other users were dispatched meanwhile.
C30_HandlerKeepsItsUpdate == cc_last.op # "-" => cc_last.wrote = cc_last.by

\* The refresh job registered for a message of user 1 fires after an update of
\* user 2 was dispatched: it sets the state of user 2.
C30_Witness ==
    /\ cc_last.op = "refresh job"
    /\ cc_last.by = 1 /\ cc_last.wrote = 2
    /\ cc_self.user = 2
    /\ cc_db[2].state = CREATE_SINGLE_POST
    /\ cc_db[1].state = CREATE_SINGLE_POST

(***************************************************************************)
(* Delivery of scheduled batches.                                          *)
(* commands/channelmanager.py load_scheduled, send_scheduled_message,      *)
(* schedule_callback_query, remove_channel_from_callback_query             *)
(***************************************************************************)
MaxDlMsgs == 2
MaxDlKeys == 2
MaxDlObjs == 3
MaxDlWorkers == 2
MaxJobCopies == 2
DlMsgs == 1..MaxDlMsgs
DlKeys == 1..MaxDlKeys
DlObjs == 1..MaxDlObjs
DlWorkers == 1..MaxDlWorkers
SendOutcomes == {"sent", "TimedOut", "Exception"}
OutcomeLists == UNION {[1..n -> SendOutcomes] : n \in 0..MaxDlMsgs}

\* chain.from_iterable(scheduled_messages.values()), as a set.
Referenced(scheduled) == UNION {SeqSet(scheduled[k]) : k \in DOMAIN scheduled}

\* del scheduled_messages[time_str]
DelKey(scheduled, k) == [j \in (DOMAIN scheduled) \ {k} |-> scheduled[j]]

\* scheduled_messages.update({time_str: messages})
UpdateKey(scheduled, k, messages) ==
    [j \in (DOMAIN scheduled) \cup {k} |-> IF j = k THEN messages ELSE scheduled[j]]

\* load_scheduled(channel): one job per key of the channel object, whose context
\* holds the object; times is always empty.
LoadJobs(jobs, o, scheduled) ==
    [j \in DlObjs \X DlKeys |->
        IF j[1] = o /\ j[2] \in DOMAIN scheduled THEN jobs[j] + 1 ELSE jobs[j]]

\* on_call: UserState.objects(user=...) is queried and its current_channel is
\* dereferenced into a new ChannelSettings object.
DlOnCall ==
    /\ Len(dl_obj) < MaxDlObjs
    /\ dl_obj' = Append(dl_obj, dl_db)
    /\ dl_self' = Len(dl_obj) + 1

\* queue_message_message_handler in the post menu: the message joins
\* added_messages of the channel.
DlQueueMessage(m) ==
    /\ ~dl_removed
    /\ \A w \in DlWorkers : dl_w[w] = "idle"
    /\ m \in DlMsgs
    /\ m = dl_next
    /\ dl_next' = m + 1
    /\ dl_db' = [dl_db EXCEPT !.added = Append(@, m)]
    /\ UNCHANGED <<dl_obj, dl_self, dl_w, dl_when, dl_jobs, dl_posts, dl_removed, dl_last>>
    /\ FrameDelivery

\* The wizard was walked through with start time k and a batch size that takes
\* all messages.
DlWizard(k) ==
    /\ ~dl_removed
    /\ \A w \in DlWorkers : dl_w[w] = "idle"
    /\ dl_db.added # <<>>
    /\ dl_when' = k
    /\ UNCHANGED <<dl_db, dl_obj, dl_self, dl_w, dl_jobs, dl_posts, dl_removed, dl_next, dl_last>>
    /\ FrameDelivery

\* The button that confirms the schedule is tapped: on_call, then
\* schedule_callback_query on a worker thread.
TapSchedule(w) ==
    /\ ~dl_removed
    /\ dl_when # 0
    /\ dl_w[w] = "idle"
    /\ DlOnCall
    /\ dl_w' = [dl_w EXCEPT ![w] = "save"]
    /\ UNCHANGED <<dl_db, dl_when, dl_jobs, dl_posts, dl_removed, dl_next, dl_last>>
    /\ FrameDelivery

\* schedule_callback_query up to self.tg_current_channel.save(), on the channel
\* object the command object holds now: the added messages become one batch
\* under the start time, added_messages is emptied, the changed fields are
\* written.
ScheduleSave(w) ==
    /\ dl_w[w] = "save"
    /\ LET O == dl_obj[dl_self]
           scheduled == IF O.added = <<>> THEN O.scheduled
                        ELSE UpdateKey(O.scheduled, dl_when, O.added)
       IN  /\ dl_obj' = [dl_obj EXCEPT ![dl_self] =
                            [O EXCEPT !.scheduled = scheduled, !.added = <<>>]]
           /\ dl_db' = [dl_db EXCEPT !.scheduled = scheduled, !.added = <<>>]
    /\ dl_w' = [dl_w EXCEPT ![w] = "load"]
    /\ UNCHANGED <<dl_self, dl_when, dl_jobs, dl_posts, dl_removed, dl_next, dl_last>>
    /\ FrameDelivery

\* schedule_callback_query: self.load_scheduled(channel=self.tg_current_channel).
ScheduleLoad(w) ==
    /\ dl_w[w] = "load"
    /\ \A k \in DOMAIN dl_obj[dl_self].scheduled : dl_jobs[<<dl_self, k>>] < MaxJobCopies
    /\ dl_jobs' = LoadJobs(dl_jobs, dl_self, dl_obj[dl_self].scheduled)
    /\ dl_w' = [dl_w EXCEPT ![w] = "idle"]
    /\ UNCHANGED <<dl_db, dl_obj, dl_self, dl_when, dl_posts, dl_removed, dl_next, dl_last>>
    /\ FrameDelivery

\* remove_channel_from_callback_query: the ChannelSettings document is deleted;
\* the jobs stay in the queue.
DlRemoveChannel ==
    /\ ~dl_removed
    /\ \A w \in DlWorkers : dl_w[w] = "idle"
    /\ dl_removed' = TRUE
    /\ dl_db' = NoChannelDoc
    /\ dl_when' = 0
    /\ UNCHANGED <<dl_obj, dl_self, dl_w, dl_jobs, dl_posts, dl_next, dl_last>>
    /\ FrameDelivery

\* The process is started again: the handlers and the jobs of the old process are
\* gone, start_hook registers a job for every key of every stored channel.
DlRestart ==
    /\ Len(dl_obj) < MaxDlObjs
    /\ dl_obj' = Append(dl_obj, dl_db)
    /\ dl_self' = 0
    /\ dl_w' = [w \in DlWorkers |-> "idle"]
    /\ dl_jobs' = IF dl_removed THEN [j \in DlObjs \X DlKeys |-> 0]
                  ELSE LoadJobs([j \in DlObjs \X DlKeys |-> 0], Len(dl_obj) + 1,
                                dl_db.scheduled)
    /\ UNCHANGED <<dl_db, dl_when, dl_posts, dl_removed, dl_next, dl_last>>
    /\ FrameDelivery

\* if not messages (mutant: the test never holds).
NeverEmpty(messages) == FALSE
NotMessages(messages) == messages = <<>>

\* The loop of send_scheduled_message over the messages of the batch: a sent
\* message is appended to sent_messages of the channel object, a time-out is
\* passed over, any other error ends the job.  The result is the object's
\* sent_messages, the messages posted and whether an error stopped the loop.
RECURSIVE SendLoop(_, _, _, _)
SendLoop(messages, outcomes, sent, done) ==
    IF messages = <<>> THEN [sent |-> sent, done |-> done, stopped |-> FALSE]
    ELSE CASE Head(outcomes) = "sent" ->
                 SendLoop(Tail(messages), Tail(outcomes), Append(sent, Head(messages)),
                          Append(done, Head(messages)))
           [] Head(outcomes) = "TimedOut" ->
                 SendLoop(Tail(messages), Tail(outcomes), sent, done)
           [] OTHER -> [sent |-> sent, done |-> done, stopped |-> TRUE]

\* A job of the queue fires: send_scheduled_message for the channel object o and
\* the key k of its context.
SendScheduledBatch(o, k, outcomes) ==
    /\ dl_jobs[<<o, k>>] > 0
    /\ Len(outcomes) = IF k \in DOMAIN dl_obj[o].scheduled THEN Len(dl_obj[o].scheduled[k])
                       ELSE 0
    /\ dl_jobs' = [dl_jobs EXCEPT ![<<o, k>>] = @ - 1]
    /\ LET O == dl_obj[o]
           messages == IF k \in DOMAIN O.scheduled THEN O.scheduled[k] ELSE <<>>
       IN  IF NotMessages(messages)
           THEN /\ dl_last' = [op |-> "send_scheduled_message", obj |-> o, key |-> k,
                               batch |-> messages, done |-> <<>>, stopped |-> FALSE,
                               notice |-> "could not be sent", before |-> dl_db,
                               removed |-> dl_removed]
                /\ UNCHANGED <<dl_db, dl_obj, dl_posts>>
           ELSE LET scheduled == DelKey(O.scheduled, k)
                    loop == SendLoop(messages, outcomes,
                                     O.sent, <<>>)
                IN  /\ dl_obj' = [dl_obj EXCEPT ![o] = [O EXCEPT !.scheduled = scheduled,
                                                                !.sent = loop.sent]]
                    /\ dl_db' = [dl_db EXCEPT !.scheduled = scheduled,
                                              !.sent = IF loop.done = <<>> THEN @
                                                       ELSE loop.sent]
                    /\ dl_posts' = [m \in DlMsgs |->
                                       IF m \in SeqSet(loop.done) THEN dl_posts[m] + 1
                                       ELSE dl_posts[m]]
                    /\ dl_last' = [op |-> "send_scheduled_message", obj |-> o, key |-> k,
                                   batch |-> messages, done |-> loop.done,
                                   stopped |-> loop.stopped,
                                   notice |-> IF loop.stopped THEN "could not be sent: one"
                                              ELSE "complete",
                                   before |-> dl_db, removed |-> dl_removed]
    /\ UNCHANGED <<dl_self, dl_w, dl_when, dl_removed, dl_next>>
    /\ FrameDelivery

\* A registered channel with nothing queued and nothing scheduled.
InitDelivery ==
    /\ dl_db = NoChannelDoc
    /\ dl_obj = <<>>
    /\ dl_self = 0
    /\ dl_w = [w \in DlWorkers |-> "idle"]
    /\ dl_when = 0
    /\ dl_jobs = [j \in DlObjs \X DlKeys |-> 0]
    /\ dl_posts = [m \in DlMsgs |-> 0]
    /\ dl_removed = FALSE
    /\ dl_next = 1
    /\ dl_last = NoDelivery
    /\ IdleState
    /\ IdleReact
    /\ IdleSchedule
    /\ IdlePost
    /\ IdleRegister
    /\ IdleButton
    /\ IdleLock
    /\ IdleMenu
    /\ IdleQueue
    /\ IdleBoot
    /\ IdleDebounce
    /\ IdleSave
    /\ IdleCurrent
    /\ IdleReset
    /\ IdleSettings
    /\ IdleImport
    /\ IdleMigration
    /\ IdleRetry
    /\ IdleSearch
    /\ IdleWizard
    /\ IdleMutex

NextDelivery ==
    \/ \E m \in DlMsgs : DlQueueMessage(m)
    \/ \E k \in DlKeys : DlWizard(k)
    \/ \E w \in DlWorkers : TapSchedule(w)
    \/ \E w \in DlWorkers : ScheduleSave(w)
    \/ \E w \in DlWorkers : ScheduleLoad(w)
    \/ DlRemoveChannel
    \/ DlRestart
    \/ \E o \in DlObjs, k \in DlKeys, outcomes \in OutcomeLists :
          SendScheduledBatch(o, k, outcomes)

SpecDelivery == InitDelivery /\ [][NextDelivery]_vars

\* C31: each message of a scheduled batch is posted to the channel at most once,
\* for any sequence of confirmations, restarts and firings of delivery jobs.
C31_DeliveredAtMostOnce == \A m \in DlMsgs : dl_posts[m] <= 1

\* Message 1 was scheduled, then message 2 under a later start time: the second
\* confirmation registered a second job for the first key, and both jobs of that
\* key have posted message 1.
C31_Witness ==
    /\ dl_posts[1] = 2
    /\ dl_last.op = "send_scheduled_message" /\ dl_last.batch = <<1>>
    /\ dl_last.done = <<1>> /\ dl_last.obj = 2 /\ dl_last.key = 1
    /\ ~dl_removed

\* C35: when the delivery of a batch stops on an error that is no time-out, every
\* message of the batch that was not posted is referenced by scheduled_messages
\* or added_messages of the stored channel afterwards.
C35_UndeliveredKept ==
    (dl_last.op = "send_scheduled_message" /\ dl_last.stopped) =>
        \A m \in SeqSet(dl_last.batch) \ SeqSet(dl_last.done) :
            m \in Referenced(dl_db.scheduled) \cup SeqSet(dl_db.added)

\* The batch <<1, 2>> was delivered: message 1 was posted, message 2 raised, and
\* the stored channel references message 2 nowhere.
C35_Witness ==
    /\ dl_last.op = "send_scheduled_message" /\ dl_last.stopped
    /\ dl_last.batch = <<1, 2>> /\ dl_last.done = <<1>>
    /\ dl_last.notice = "could not be sent: one"
    /\ dl_db = [scheduled |-> <<>>, added |-> <<>>, sent |-> <<1>>]
    /\ dl_posts[2] = 0

\* C36: once the owner removed the channel, no delivery job posts a message of
\* the channel.
C36_NoPostAfterRemoval == [][dl_removed => dl_posts' = dl_posts]_vars

\* The channel was removed with a batch scheduled and the job of the batch has
\* posted it since.
C36_Witness ==
    /\ dl_removed
    /\ dl_last.op = "send_scheduled_message" /\ dl_last.removed
    /\ dl_last.batch = <<1>> /\ dl_last.done = <<1>>
    /\ dl_posts[1] = 1
    /\ dl_last.before = NoChannelDoc

C32_BatchAccounted ==
    [][(p_w.pc = "loop" /\ p_w.rest = <<>> /\ ~p_w.preview /\ p_w' = NoWorker) =>
          /\ \A m \in SeqSet(p_w.messages) :
                m \in SeqSet(p_db'.sent) \cup SeqSet(p_db'.added)
          /\ p_w.uuid \notin DOMAIN p_db'.queued]_vars

\* A send of two messages has finished; the second timed out: it is stored in
\* the slot of the batch and in no list.
C32_Witness ==
    /\ p_w = NoWorker
    /\ p_uuid = 1
    /\ p_db.sent = <<1>>
    /\ p_db.added = <<>>
    /\ DOMAIN p_db.queued = {1}
    /\ p_db.queued[1] = <<2>>
    /\ p_last.op # "send_error"

(***************************************************************************)
(* Saving a ChannelSettings under the lock of the class.                   *)
(* models/channelsettings.py save_contextmanager, save;                    *)
(* commands/channelmanager.py add_channel_post_message_handler,            *)
(* send_scheduled_message                                                  *)
(***************************************************************************)
MaxSavers == 2
MaxSaves == 3
Savers == 1..MaxSavers
ListFields == {"sent_messages", "added_messages"}
SaveKinds == {"save", "with"}

\* A worker loads the document: ChannelSettings.objects(...).first(), or the
\* object of a job's context.  kind "save" appends and calls save() afterwards
\* (add_channel_post_message_handler), kind "with" appends inside
\* with channel.save_contextmanager() (send_scheduled_message).
MxLoad(w, kind, field) ==
    /\ mx_w[w].pc = "idle"
    /\ mx_n < MaxSaves
    /\ mx_n' = mx_n + 1
    /\ mx_w' = [mx_w EXCEPT ![w] = [pc |-> IF kind = "save" THEN "append" ELSE "acquire",
                                    kind |-> kind, field |-> field, msg |-> mx_n + 1,
                                    obj |-> mx_db, changed |-> FALSE, raised |-> FALSE]]
    /\ UNCHANGED <<mx_db, mx_lock, mx_done>>
    /\ FrameMutex

\* channel.<list>.append(message): the list of the object grows and the field is
\* marked as changed.
MxAppend(w) ==
    /\ mx_w[w].pc = "append"
    /\ mx_w[w].kind = "with" => mx_lock = w
    /\ mx_w' = [mx_w EXCEPT ![w].obj[mx_w[w].field] = Append(@, mx_w[w].msg),
                            ![w].changed = TRUE,
                            ![w].pc = IF mx_w[w].kind = "save" THEN "acquire" ELSE "hook"]
    /\ UNCHANGED <<mx_db, mx_lock, mx_n, mx_done>>
    /\ FrameMutex

\* save_contextmanager: self.save_lock.acquire() blocks until the lock is free.
MxAcquire(w) ==
    /\ mx_w[w].pc = "acquire"
    /\ mx_lock = 0
    /\ mx_lock' = w
    /\ mx_w' = [mx_w EXCEPT ![w].pc = IF mx_w[w].kind = "save" THEN "hook" ELSE "append"]
    /\ UNCHANGED <<mx_db, mx_n, mx_done>>
    /\ FrameMutex

\* save_contextmanager: self.before_save(); an error leaves the try block.
MxBeforeSave(w, raises) ==
    /\ mx_w[w].pc = "hook"
    /\ mx_lock = w
    /\ mx_w' = [mx_w EXCEPT ![w].pc = IF raises THEN "finally" ELSE "write",
                            ![w].raised = raises]
    /\ UNCHANGED <<mx_db, mx_lock, mx_n, mx_done>>
    /\ FrameMutex

\* Document.save(): the changed fields are written as they are in the object;
\* an error of the driver leaves the try block.
MxWrite(w, raises) ==
    /\ mx_w[w].pc = "write"
    /\ mx_lock = w
    /\ IF raises
       THEN UNCHANGED <<mx_db, mx_done>>
       ELSE /\ mx_db' = IF mx_w[w].changed
                        THEN [mx_db EXCEPT ![mx_w[w].field] = mx_w[w].obj[mx_w[w].field]]
                        ELSE mx_db
            /\ mx_done' = mx_done \cup {<<mx_w[w].field, mx_w[w].msg>>}
    /\ mx_w' = [mx_w EXCEPT ![w].pc = "finally", ![w].raised = raises]
    /\ UNCHANGED <<mx_lock, mx_n>>
    /\ FrameMutex

\* A release that is skipped when the save raised (mutant).
KeepOnError(holder, raised) == IF raised THEN holder ELSE 0

\* finally: self.save_lock.release()
Release(holder, raised) == 0

MxFinally(w) ==
    /\ mx_w[w].pc = "finally"
    /\ mx_lock' = Release(mx_lock, mx_w[w].raised)
    /\ mx_w' = [mx_w EXCEPT ![w] = NoSaver]
    /\ UNCHANGED <<mx_db, mx_n, mx_done>>
    /\ FrameMutex

\* A stored channel with empty lists; no worker is saving.
InitMutex ==
    /\ mx_db = [f \in ListFields |-> <<>>]
    /\ mx_w = [w \in Savers |-> NoSaver]
    /\ mx_lock = 0
    /\ mx_n = 0
    /\ mx_done = {}
    /\ IdleState
    /\ IdleReact
    /\ IdleSchedule
    /\ IdlePost
    /\ IdleRegister
    /\ IdleButton
    /\ IdleLock
    /\ IdleMenu
    /\ IdleQueue
    /\ IdleBoot
    /\ IdleDebounce
    /\ IdleSave
    /\ IdleCurrent
    /\ IdleReset
    /\ IdleSettings
    /\ IdleImport
    /\ IdleMigration
    /\ IdleRetry
    /\ IdleSearch
    /\ IdleWizard
    /\ IdleDelivery

NextMutex ==
    \/ \E w \in Savers, kind \in SaveKinds, field \in ListFields : MxLoad(w, kind, field)
    \/ \E w \in Savers : MxAppend(w)
    \/ \E w \in Savers : MxAcquire(w)
    \/ \E w \in Savers, raises \in BOOLEAN : MxBeforeSave(w, raises)
    \/ \E w \in Savers, raises \in BOOLEAN : MxWrite(w, raises)
    \/ \E w \in Savers : MxFinally(w)

SpecMutex == InitMutex /\ [][NextMutex]_vars

\* Every worker thread that has loaded the document keeps running.
SpecMutexFair ==
    /\ SpecMutex
    /\ \A w \in Savers :
          /\ WF_vars(MxAppend(w))
          /\ WF_vars(MxAcquire(w))
          /\ WF_vars(\E raises \in BOOLEAN : MxBeforeSave(w, raises))
          /\ WF_vars(\E raises \in BOOLEAN : MxWrite(w, raises))
          /\ WF_vars(MxFinally(w))

\* C33: a reference that a worker appended to a list of the channel and saved is
\* in the stored list, whatever another worker that loaded the same document
\* appended and saved meanwhile.
C33_NoLostUpdate ==
    \A a \in mx_done : a[2] \in SeqSet(mx_db[a[1]])

\* Two workers loaded the channel, each appended a message to sent_messages and
\* saved: the stored list holds the message of the later save only.
C33_Witness ==
    /\ mx_done = {<<"sent_messages", 1>>, <<"sent_messages", 2>>}
    /\ mx_db["sent_messages"] = <<2>>
    /\ mx_db["added_messages"] = <<>>
    /\ mx_lock = 0
    /\ \A w \in Savers : mx_w[w] = NoSaver

\* The workers between acquire and release of save_lock.
InSaveSection == {w \in Savers : mx_w[w].pc \in {"hook", "write", "finally"}
                                  \/ (mx_w[w].kind = "with" /\ mx_w[w].pc = "append")}

\* C39: at most one worker is in the save section, the lock is held by a worker
\* in the section only, also after the hook or the write raised, and a worker
\* that waits for the lock gets it.
C39_SaveSerialized ==
    /\ [](Cardinality(InSaveSection) <= 1)
    /\ [](mx_lock # 0 => mx_lock \in InSaveSection)
    /\ \A w \in Savers : (mx_w[w].pc = "acquire") ~> (mx_w[w].pc # "acquire")

\* A worker waits for the lock while the write of the other has raised and its
\* finally clause is about to run.
C39_Witness ==
    /\ mx_lock = 1
    /\ mx_w[1].pc = "finally" /\ mx_w[1].raised
    /\ mx_w[2].pc = "acquire"

(***************************************************************************)
(* Leaving SEND_LOCKED.  commands/channel.py send_post_callback_query,     *)
(* reset_state; commands/channelmanager.py send_post_callback_query        *)
(***************************************************************************)
\* Channel.send_post_callback_query: get_correct_send_message, or the assignment
\* of the caption, raises for a message of the batch; both are outside the try
\* block of the loop, so the worker ends with the state as it is.
LegacySendRaise ==
    /\ lk_send = "locked"
    /\ lk_send' = "idle"
    /\ UNCHANGED <<lk_state, lk_queue, lk_run, k_last>>
    /\ FrameLegacy
    /\ FrameLock

\* Channel.reset_state of a user who is no administrator of the bot; the handler
\* is not decorated with locked.
LegacyResetState ==
    /\ lk_state' = IF lk_state = SEND_LOCKED THEN lk_state ELSE IDLE
    /\ UNCHANGED <<lk_queue, lk_run, lk_send, k_last>>
    /\ FrameLegacy
    /\ FrameLock

\* ChannelManager.send_post_callback_query: resolving the added messages or saving
\* the channel raises before the state is set to CREATE_SINGLE_POST.
LockSendRaise ==
    /\ k_w = "locked"
    /\ k_w' = "idle"
    /\ UNCHANGED <<k_state, k_added, k_queued, k_last>>
    /\ FrameManager
    /\ FrameLock

\* The commands and buttons of both command classes that set a state, the send
\* of each and its worker.
NextUnlock ==
    \/ LockResetStateCommand
    \/ LockCreatePostMenu
    \/ LockSendPost
    \/ LockSendLock
    \/ LockSendMove
    \/ LockSendRaise
    \/ LockSendFinish
    \/ \E handler \in LockedHandlers : LegacyCall(handler)
    \/ \E handler \in LockedHandlers : LegacyRun(handler)
    \/ LegacySendLock
    \/ LegacySendDone
    \/ LegacySendRaise
    \/ LegacyResetState

SpecUnlock == InitLock /\ [][NextUnlock]_vars

\* The workers keep running and the user keeps using the commands and buttons.
SpecUnlockFair ==
    /\ SpecUnlock
    /\ WF_vars(LockSendLock \/ LockSendMove \/ LockSendRaise \/ LockSendFinish)
    /\ WF_vars(LegacySendLock \/ LegacySendDone \/ LegacySendRaise)
    /\ WF_vars(\E handler \in LockedHandlers : LegacyRun(handler))
    /\ WF_vars(\E handler \in LockedHandlers : LegacyCall(handler))
    /\ WF_vars(LegacyResetState)
    /\ WF_vars(LockResetStateCommand)
    /\ WF_vars(LockCreatePostMenu)

\* C37: a user whose state is SEND_LOCKED leaves SEND_LOCKED, with either
\* command class, also when a message of the batch raises an unexpected error
\* and the user is no administrator of the bot.
C37_LeavesSendLocked ==
    /\ (lk_state = SEND_LOCKED) ~> (lk_state # SEND_LOCKED)
    /\ (k_state = SEND_LOCKED) ~> (k_state # SEND_LOCKED)

\* The worker of Channel.send_post_callback_query has ended on an error and the
\* user is in SEND_LOCKED, where every handler that sets a state refuses.
C37_Witness ==
    /\ lk_state = SEND_LOCKED
    /\ lk_send = "idle"
    /\ lk_run = {}
    /\ k_state # SEND_LOCKED

\* C34: a confirmation in the normal or append case keeps every batch that was
\* scheduled: each message referenced by scheduled_messages before it is
\* referenced afterwards, also when the new batch gets the key of an old one.
C34_ConfirmKeepsBatches ==
    [][(sc_last' # sc_last /\ sc_last'.op = "confirm" /\ sc_last'.mode = "normal") =>
          SeqSet(ChainValues(sc_scheduled)) \subseteq SeqSet(ChainValues(sc_scheduled'))]_vars

\* Messages 1 and 2 were scheduled at time 9; message 3 was scheduled with the
\* same start time: the key of time 9 holds message 3 only.
C34_Witness ==
    /\ sc_last.op = "confirm" /\ sc_last.mode = "normal" /\ ~sc_last.failed
    /\ sc_last.msgs = <<3>>
    /\ ~sc_data.append
    /\ DictKeys(sc_scheduled) = {Str(9)}
    /\ SeqSet(ChainValues(sc_scheduled)) = {3}
    /\ sc_added = <<>>

\* The key under which the first run stored the old message with _id id again.
NewKey(id) == (CHOOSE msg \in mg_msgs : msg.message_id = id).id

\* What a list of references of a channel of user is to hold after the first
\* run: a reference to an old message of the user's chat is the new key of the
\* message, and of the others those that are no integer remain.
Repoint(user, ids) ==
    [i \in DOMAIN ids |->
        IF \E m \in mg_before.msgs : m.id = ids[i] /\ IsOld(m.id) /\ m.chat = user
        THEN NewKey(ids[i]) ELSE ids[i]]
NotBareNumber(item) == item.kind # "int"
Repointed(user, ids) == SelectSeq(Repoint(user, ids), NotBareNumber)

\* C40: after the first run every reference of a channel to a re-keyed message of
\* the channel's user is the new key of the message, in the three lists and in
\* the lists of the two maps, and the references that were removed are those that
\* were still integers.
C40_ReferencesRepointed ==
    mg_runs = 1 =>
        \A c \in DOMAIN mg_chan :
            LET before == mg_before.chan[c]
            IN  /\ \A f \in DOMAIN before.lists :
                      mg_chan[c].lists[f] = Repointed(before.user, before.lists[f])
                /\ \A f \in DOMAIN before.maps :
                      \A k \in DOMAIN before.maps[f].items :
                          /\ k \in DOMAIN mg_chan[c].maps[f].items
                          /\ mg_chan[c].maps[f].items[k] =
                                Repointed(before.user, before.maps[f].items[k])

\* The ObjectId made for message 1 consists of digits: the channel of the
\* message's user referred to messages 1 and 2 and refers to message 2 only.
C40_Witness ==
    /\ mg_runs = 1
    /\ mg_before.chan[1].user = 1
    /\ mg_before.chan[1].lists.sent_messages = <<IntId(1), IntId(2)>>
    /\ \A m \in mg_before.msgs : m.chat = 1
    /\ Cardinality(mg_before.msgs) = 2
    /\ \E n \in 1..MaxMigMsgs :
          /\ [id |-> ObjectId(n, TRUE), message_id |-> IntId(1), chat |-> 1] \in mg_msgs
          /\ mg_chan[1].lists.sent_messages = <<NewKey(IntId(2))>>
    /\ ~NewKey(IntId(2)).digits

====
